---- MODULE Spec2Model ----
(***************************************************************************)
(* A model of the text-to-record pipeline of the grocery invoice importer: *)
(* parser.py (normalizer, classifier, invoice line extractor) and          *)
(* receipt_parser.py (abbreviation expander, receipt line extractor), and  *)
(* of the import of a document into the invoices and products tables of    *)
(* database.py.                                                            *)
(*                                                                         *)
(* A Python str is a TLC string; characters are strings of length one.     *)
(* Case mapping covers the ASCII letters; the whitespace class is the      *)
(* ASCII whitespace that TLA+ strings can write.                           *)
(***************************************************************************)
EXTENDS Integers, Sequences, FiniteSets, TLC

VARIABLES
  keyword_edits,      \* the successful add/remove calls on CATEGORY_KEYWORDS so far, in order
  mutation,           \* the last add/remove call and what it returned (no function before any)
  fn,                 \* the function or extractor the current call runs ("idle" before a call)
  arg,                \* the argument of the current call
  ret,                \* what the call returned (None while it has not returned)
  lines,              \* receipt extractor: text.split('\n')
  i,                  \* receipt extractor: index of the line the for loop takes next
  pos,                \* invoice extractor: where finditer looks for the next match
  seen_products,      \* invoice extractor: the keys of the products emitted so far
  products,           \* both extractors: the list being built
  origin,             \* for each element of products, the number of the line it came from
  db,                 \* database.py: the rows of the tables invoices and products, and
                      \* whether a connection left open holds the write lock
  importing,          \* the call of import_invoice or import_receipt and how far it is
  scan,               \* categorize_product: the name it looks up and where its loops over
                      \* CATEGORY_KEYWORDS are
  parked              \* the locals of the other worker, which runs when this one is switched out

vars ==
  <<keyword_edits, mutation, fn, arg, ret, lines, i, pos, seen_products, products, origin,
    db, importing, scan, parked>>

\* Python's None, kept apart from every string the program produces.
None == "<None>"

----------------------------------------------------------------------------
(* Characters and the str methods the program uses.                        *)

Ch(s, k) == SubSeq(s, k, k)

WhiteSpace == {" ", "\t", "\n", "\r", "\f"}

IsSpace(c) == c \in WhiteSpace

IsDigit(c) == c \in {"0", "1", "2", "3", "4", "5", "6", "7", "8", "9"}

LowerLetters == "abcdefghijklmnopqrstuvwxyz"

UpperLetters == "ABCDEFGHIJKLMNOPQRSTUVWXYZ"

LetterIndex(letters, c) == CHOOSE k \in 1..Len(letters) : Ch(letters, k) = c

ToUpper ==
  [c \in {Ch(LowerLetters, k) : k \in 1..Len(LowerLetters)} |->
     Ch(UpperLetters, LetterIndex(LowerLetters, c))]

ToLower ==
  [c \in {Ch(UpperLetters, k) : k \in 1..Len(UpperLetters)} |->
     Ch(LowerLetters, LetterIndex(UpperLetters, c))]

\* str.upper() and str.lower(), a character at a time (the string is halved to
\* keep the evaluation shallow).
RECURSIVE upper(_)
upper(s) ==
  IF Len(s) = 0 THEN ""
  ELSE IF Len(s) = 1 THEN (IF s \in DOMAIN ToUpper THEN ToUpper[s] ELSE s)
  ELSE upper(SubSeq(s, 1, Len(s) \div 2)) \o upper(SubSeq(s, Len(s) \div 2 + 1, Len(s)))

RECURSIVE lower(_)
lower(s) ==
  IF Len(s) = 0 THEN ""
  ELSE IF Len(s) = 1 THEN (IF s \in DOMAIN ToLower THEN ToLower[s] ELSE s)
  ELSE lower(SubSeq(s, 1, Len(s) \div 2)) \o lower(SubSeq(s, Len(s) \div 2 + 1, Len(s)))

Min(S) == CHOOSE n \in S : \A m \in S : n <= m

Max(S) == 0 - Min({0 - n : n \in S})

\* str.strip(): from the first to the last character that is not whitespace.
strip(s) ==
  LET solid == {k \in 1..Len(s) : ~IsSpace(Ch(s, k))}
  IN  IF solid = {} THEN "" ELSE SubSeq(s, Min(solid), Max(solid))

\* str.endswith(suffix), str.startswith(prefix)
endswith(s, suffix) ==
  Len(suffix) <= Len(s) /\ SubSeq(s, Len(s) - Len(suffix) + 1, Len(s)) = suffix

startswith(s, prefix) ==
  Len(prefix) <= Len(s) /\ SubSeq(s, 1, Len(prefix)) = prefix

\* needle in s
Contains(s, needle) ==
  \E k \in 0..(Len(s) - Len(needle)) : SubSeq(s, k + 1, k + Len(needle)) = needle

\* Every text x for which "x in s" holds.
Substrings(s) == UNION {{SubSeq(s, a, b) : b \in (a - 1)..Len(s)} : a \in 1..(Len(s) + 1)}

\* s[n:]
From(s, n) == SubSeq(s, n + 1, Len(s))

----------------------------------------------------------------------------
(* The tables of the program.                                              *)

\* parser.py CATEGORY_KEYWORDS as the module is loaded: the dict in declaration order.
InitialCategoryKeywords ==
  <<
    [category |-> "Zuivel & Eieren",
     keywords |-> <<"melk", "yoghurt", "kaas", "boter", "room", "eieren", "ei ", "kwark",
                    "creme fraiche", "slagroom", "cottage", "mascarpone", "ricotta",
                    "zuivelspread", "kookzuivel", "sour cream", "griekse stijl",
                    "zaanlander", "geraspt", "plakken", "45+", "48+", "mozzarella",
                    "pecorino", "parmigiano", "feta", "zaanse hoeve", "burrata", "brie",
                    "geitenkaas", "camembert", "gorgonzola", "gruyere", "emmentaler",
                    "grana padano", "parmareggio", "manchego", "streeckgenoten", "schrama",
                    "belegen", "jong belegen", "extra belegen", "oud", "alpro", "oatly",
                    "mild & creamy", "margarine", "becel", "blue band", "vla",
                    "kleintje vla", "custard">>],
    [category |-> "Groente & Fruit",
     keywords |-> <<"tomaat", "tomaten", "appel", "peer", "banaan", "bananen", "aardappel",
                    "sla", "rauwkost", "rauwkostsalade", "komkommer", "paprika", "wortel",
                    "ui ", "uien", "knoflook", "champignon", "broccoli", "bloemkool",
                    "spinazie", "prei", "courgette", "aubergine", "avocado", "mango",
                    "ananas", "druiven", "sinaasappel", "citroen", "limoen", "aardbei",
                    "bosbes", "frambo", "elstar", "peen", "roerbak", "snoepgroente",
                    "trostomaten", "cherry", "roma", "julienne", "basilicum", "groente",
                    "fruit", "dadels", "rozijn", "chiquita", "bimi", "sjalot",
                    "gemengde salade", "salade erbij", "italiaanse mix", "salade mix",
                    "lunchsalade", "caesar", "pompoen", "peterselie", "bieslook",
                    "koriander", "dille", "munt", "tijm", "oregano", "rozemarijn", "dragon",
                    "kervel", "salie", "laurier", "bonenkruid", "bosui", "lente-ui",
                    "radijs", "rucola", "veldsla", "andijvie", "witlof", "rode kool",
                    "witte kool", "savooiekool", "spitskool", "boerenkool", "snijbiet",
                    "pak choi", "chinese kool", "ijsbergsla", "lollo", "radicchio", "venkel",
                    "knolselderij", "selderij", "pastinaak", "bieten", "mais", "artisjok",
                    "asperge", "zeekraal", "postelein", "shiitake", "oester", "sperziebonen",
                    "tuinerwten", "doperwten", "sugarsnaps", "peultjes", "olijf",
                    "taggiasca", "paddestoelen", "paddenstoel", "kappertjes", "kersen",
                    "pruimen", "abrikozen", "perzik", "nectarine", "melon", "watermeloen",
                    "kiwi", "granaatappel", "passievrucht", "lychee", "pitaya", "papaya",
                    "kokosnoot", "vijgen", "grapefruit", "mandarijn", "clementine",
                    "conference", "gala", "jonagold", "golden", "granny", "schaal", "tros",
                    "doos", "krieltjes">>],
    [category |-> "Vlees & Vis",
     keywords |-> <<"kip", "varken", "rund", "gehakt", "filet", "worst", "bacon", "ham",
                    "kipfilet", "biefstuk", "schnitzel", "spek", "kalkoen", "lam",
                    "scharrel", "kipdij", "rosbief", "haricot", "ossenhaas", "entrecote",
                    "ribeye", "slavink", "hamburger", "cordon bleu", "kipdrumstick",
                    "kippenvleugel", "spareribs", "pulled pork", "rookvlees", "pastrami",
                    "salami", "chorizo", "pancetta", "prosciutto", "carpaccio", "tartaar",
                    "riblap", "sucadelapje", "stoofvlees", "sticky chicken", "shoarma",
                    "mortadella", "fuet", "besos", "zalm", "tonijn", "garnaal", "vis",
                    "kabeljauw", "schelvis", "tilapia", "pangasius", "forel", "makreel",
                    "haring", "kibbeling", "lekkerbek", "visstick", "visfilet",
                    "rivierkreeft", "kreeft", "krab", "mosselen", "oesters", "inktvis",
                    "calamares", "scampi", "coquilles", "gerookte", "warmgerookte",
                    "warmgerookt", "garnalenkroket", "tempura", "garnalen rauw", "gepeld",
                    "ansjovis", "princes", "plantaardige balletjes", "plantaardige burger",
                    "plantaardig gehakt">>],
    [category |-> "Brood & Bakkerij",
     keywords |-> <<"brood", "croissant", "stok", "pistolet", "bol", "baguette", "wrap",
                    "pita", "toast", "beschuit", "cracker", "wasa", "volkoren", "waldkorn",
                    "meergranen", "rogge", "spelt", "haver", "zuurdesem", "ciabatta",
                    "focaccia", "naan", "chapati", "tortilla", "flatbread", "knäckebröd",
                    "bagel", "muffin", "donut", "croffle", "pannenkoek", "poffertjes",
                    "pizzabodem", "rosti", "boulogne", "pains", "taart", "cake", "gebak",
                    "appelflap", "saucijzenbroodje", "kaasbroodje">>],
    [category |-> "Pasta, Rijst & Granen",
     keywords |-> <<"pasta", "penne", "spaghetti", "macaroni", "noodle", "noedel", "lasagne",
                    "fusilli", "tagliatelle", "fettuccine", "linguine", "rigatoni",
                    "farfalle", "orzo", "tortellini", "ravioli", "gnocchi", "cappelletti",
                    "wok ", "udon", "orecchiette", "de cecco", "barilla", "sfoglie", "rijst",
                    "couscous", "havermout", "muesli", "quinoa", "bulgur", "polenta",
                    "risotto", "basmati", "jasmine", "pandan", "arborio", "sesamzaad",
                    "sesam", "kikkererwten", "zwarte bonen", "witte bonen", "bruine bonen",
                    "linzen", "sojabonen", "kapucijners", "spliterwten", "tuinbonen",
                    "limabonen", "kidneybonen", "cannellini", "borlotti", "lima bonen",
                    "edamame", "peulvruchtenmix", "peulvruchten">>],
    [category |-> "Dranken",
     keywords |-> <<"water", "cola", "fris", "sap", "limonade", "ice tea", "tonic",
                    "bitter lemon", "cassis", "grenadine", "appelsap", "sinaasappelsap",
                    "jus d'orange", "pellegrino", "spa ", "evian", "perrier",
                    "mineraalwater", "thee", "koffie", "espresso", "cappuccino", "latte",
                    "cacao", "chocomel", "capsules", "pads", "lungo", "ristretto", "perla",
                    "pukka", "bier", "wijn", "prosecco", "champagne", "cava", "abdij",
                    "blond", "leffe", "heineken", "grolsch", "amstel", "hertog", "energy",
                    "sportdrank", "vitamin well", "red bull", "monster", "energy drink",
                    "haverdrink", "sojadrink", "amandeldrink", "rijstdrink", "kokosdrink",
                    "havermelk", "sojamelk", "amandelmelk", "sauvignon", "chardonnay",
                    "merlot", "cabernet", "pinot", "rioja", "chianti", "malbec", "shiraz",
                    "riesling", "gewurztraminer", "moscato", "blanc", "rouge", "rosé",
                    "rose">>],
    [category |-> "Sauzen & Specerijen",
     keywords |-> <<"saus", "ketchup", "mayo", "mayonaise", "mosterd", "pesto", "dressing",
                    "vinaigrette", "aioli", "tzatziki", "hummus", "guacamole", "salsa",
                    "tapenade", "sambal", "sriracha", "tabasco", "sojasaus", "ketjap",
                    "teriyaki", "hoisin", "oestersaus", "vissaus", "worcestershire", "olie",
                    "azijn", "balsamico", "olijfolie", "zonnebloemolie", "peper", "zout",
                    "kruiden", "curry", "paprika poeder", "kaneel", "nootmuskaat", "komijn",
                    "kurkuma", "gember", "kardamom", "kruidnagel", "steranijs",
                    "korianderzaad", "venkelzaad", "kerrie", "garam masala", "ras el hanout",
                    "za'atar", "sumak", "cayenne", "tomatenpuree", "puree", "passata",
                    "pelati", "honing", "cuisine", "paturain", "bâton", "smaakmakermix",
                    "jus", "fond", "bouillon", "roux">>],
    [category |-> "Snacks & Zoetwaren",
     keywords |-> <<"chips", "popcorn", "pretzels", "pinda", "borrel", "dipsaus", "zeewier",
                    "krokant", "kroketjes", "cheese bites", "kaaskoekje", "nootje", "noten",
                    "walnoot", "amandel", "cashew", "notenmix", "hazelnoot", "pistache",
                    "macadamia", "pecannoot", "paranoot", "terra noten", "terra walnoot",
                    "terra amandel", "pijnboompitten", "chiazaad", "zonnebloempitten",
                    "pompoenpitten", "lijnzaad", "kokossnippers", "kokosrasp", "chocola",
                    "chocolade", "koek", "snoep", "drop", "kauwgom", "tony", "reep",
                    "biscuit", "sticks", "cookies", "bonbon", "marshmallow", "lolly",
                    "zuurtje", "winegums", "m&m", "stroopwafel", "slofje", "slofjes",
                    "musket", "lettertje", "macarons", "paashaas", "gips", "knettersuiker",
                    "tompoucen", "tompouce", "nougatine", "nougat", "wafel", "roomijs",
                    "ijs ", "pavlova", "fruit mix", "mousse", "tiramisu", "panna cotta",
                    "cheesecake", "brownie">>],
    [category |-> "Huishouden",
     keywords |-> <<"wc", "schoon", "afwas", "wasmiddel", "waspoeder", "wasverzachter",
                    "doekje", "sponge", "bezem", "dweil", "allesreiniger", "bleek",
                    "ontkalker", "vaatwas", "glansspoelmiddel", "glasreiniger", "glassex",
                    "mullrose", "azijn", "schoonmaakazijn", "spray", "pedaalemmerzak",
                    "emmerzak", "papier", "toiletpapier", "keukenrol", "servet", "tissue",
                    "tempo", "folie", "aluminiumfolie", "huishoudfolie", "bakpapier",
                    "vershoudfolie", "zak", "vuilnis", "afvalzak", "diepvrieszak",
                    "cocktail prikker", "prikker", "sateprikker", "bakje", "doeboek",
                    "toetenvegers", "batterij", "lamp", "kaars", "lucifer", "aansteker">>],
    [category |-> "Persoonlijke Verzorging",
     keywords |-> <<"shampoo", "conditioner", "haarlak", "gel", "mousse", "haarverf",
                    "magic retouch", "l'oréal", "loreal", "douche", "zeep", "douchegel",
                    "bodylotion", "bodycrème", "deodorant", "deo", "deoleen", "satin",
                    "anti-transpirant", "creme", "lotion", "hand soap", "handzeep",
                    "hygiene", "care mint", "refill", "tandpasta", "tandenb", "mondwater",
                    "flosdraad", "elmex", "oral", "scheerm", "scheermes", "scheergel",
                    "aftershave", "make", "mascara", "lippenstift", "nagellak",
                    "wattenschijf", "wattenstaaf", "maandverband", "tampon", "condoom">>],
    [category |-> "Verpakking & Statiegeld",
     keywords |-> <<"statiegeld", "krat", "fles", "blik", "tasje", "verpakking", "emballage">>],
    [category |-> "Bezorgkosten",
     keywords |-> <<"bezorg", "aflever", "service">>],
    [category |-> "Abonnementen",
     keywords |-> <<"premium", "abonnement", "lidmaatschap", "bundel">>]
  >>

\* parser.py categorize_product: the local list priority_rules, in declared order.
priority_rules ==
  <<
    [keywords |-> <<"chips", "lentil chips", "tortilla chips", "nacho chips",
                    "proper sea salt", "proper paprika", "proper sweet">>,
     category |-> "Snacks & Zoetwaren"],
    [keywords |-> <<"muesli", "granola", "cruesli">>,
     category |-> "Pasta, Rijst & Granen"],
    [keywords |-> <<"schoonmaakazijn", "mullrose", "vanish", "vlekverwijderaar">>,
     category |-> "Huishouden"],
    [keywords |-> <<"pindakaas", "ahornsiroop", "maple", "harissa", "souq">>,
     category |-> "Sauzen & Specerijen"],
    [keywords |-> <<"haverdrink", "sojadrink", "amandeldrink", "kokosdrink", "fever-tree",
                    "ginger beer", "tonic">>,
     category |-> "Dranken"],
    [keywords |-> <<"chocolade", "chocola", "chocoladefiguurtjes", "chocolade druppels">>,
     category |-> "Snacks & Zoetwaren"],
    [keywords |-> <<"cashewnoten", "cashew", "noten">>,
     category |-> "Snacks & Zoetwaren"],
    [keywords |-> <<"bulgur", "quinoa", "couscous">>,
     category |-> "Pasta, Rijst & Granen"],
    [keywords |-> <<"ansjovis", "tonijn", "sardine">>,
     category |-> "Vlees & Vis"],
    [keywords |-> <<"pukka", "thee", "chamomile", "night time", "after dinner">>,
     category |-> "Dranken"],
    [keywords |-> <<"gyoza", "biltong", "knaks", "nduja", "cha siu">>,
     category |-> "Vlees & Vis"],
    [keywords |-> <<"smint", "sportlife", "gums", "mints", "haribo", "liga", "pappadum",
                    "vlokken", "venz">>,
     category |-> "Snacks & Zoetwaren"],
    [keywords |-> <<"etos", "lenzen", "maandlenzen", "vloeistof", "azaron">>,
     category |-> "Persoonlijke Verzorging"],
    [keywords |-> <<"pizza", "pinsa", "pizzetta">>,
     category |-> "Brood & Bakkerij"],
    [keywords |-> <<"ramen", "brilliant broth", "itsu">>,
     category |-> "Pasta, Rijst & Granen"],
    [keywords |-> <<"rivella", "fanta", "dr pepper", "hi-five", "charitea", "mojo", "maté",
                    "fentimans", "elderflower", "coolbest">>,
     category |-> "Dranken"],
    [keywords |-> <<"mars", "ijsrepen", "klene", "red band", "stophoest", "ben & jerry",
                    "smoeltjes", "suikerschelpen", "mentos", "gum">>,
     category |-> "Snacks & Zoetwaren"],
    [keywords |-> <<"hg ", "schoonmaak", "kookplaatreiniger", "beeldschermreiniger",
                    "sportkleding", "tafelkleed">>,
     category |-> "Huishouden"],
    [keywords |-> <<"chili", "chilli", "go-tan", "mazzetti", "condimento">>,
     category |-> "Sauzen & Specerijen"],
    [keywords |-> <<"always", "inlegkruisje", "dailies">>,
     category |-> "Persoonlijke Verzorging"],
    [keywords |-> <<"bladerdeeg", "filo", "easy bakery", "gist", "droge gist">>,
     category |-> "Brood & Bakkerij"],
    [keywords |-> <<"vivera", "plantaardige chicken", "tenders">>,
     category |-> "Vlees & Vis"],
    [keywords |-> <<"eru", "balans", "oat drink", "natrue">>,
     category |-> "Zuivel & Eieren"],
    [keywords |-> <<"fairtrade original", "butter chicken", "curry kit">>,
     category |-> "Sauzen & Specerijen"],
    [keywords |-> <<"coconut oil", "kokosolie", "biofan">>,
     category |-> "Sauzen & Specerijen"],
    [keywords |-> <<"kloppudding", "dr. oetker", "pudding">>,
     category |-> "Snacks & Zoetwaren"]
  >>

\* parser.py SUBCATEGORY_KEYWORDS: category -> (subcategory -> keywords), both in declared order.
SUBCATEGORY_KEYWORDS ==
  <<
    [category |-> "Zuivel & Eieren",
     subcategories |-> <<
        [subcategory |-> "Melk",
         keywords |-> <<"melk", "halfvol", "volle melk", "magere melk", "lactosevrij">>],
        [subcategory |-> "Kaas",
         keywords |-> <<"kaas", "goudse", "gruyere", "pecorino", "mozzarella", "feta",
                        "brie", "camembert", "parmesan", "manchego">>],
        [subcategory |-> "Yoghurt & Kwark",
         keywords |-> <<"yoghurt", "kwark", "griekse", "skyr", "cottage">>],
        [subcategory |-> "Boter & Margarine",
         keywords |-> <<"boter", "margarine", "becel", "blue band", "roomboter">>],
        [subcategory |-> "Eieren",
         keywords |-> <<"eieren", "ei ", "scharreleieren", "bio eieren">>],
        [subcategory |-> "Room & Vla",
         keywords |-> <<"slagroom", "room", "vla", "custard", "creme fraiche">>],
        [subcategory |-> "Plantaardig",
         keywords |-> <<"alpro", "oatly", "mild & creamy", "plantaardig">>] >>],
    [category |-> "Groente & Fruit",
     subcategories |-> <<
        [subcategory |-> "Groente",
         keywords |-> <<"tomaat", "komkommer", "paprika", "wortel", "broccoli", "spinazie",
                        "sla", "kool", "prei", "courgette", "champignon", "ui", "knoflook">>],
        [subcategory |-> "Fruit",
         keywords |-> <<"appel", "peer", "banaan", "druiven", "aardbei", "mango", "ananas",
                        "sinaasappel", "citroen", "kiwi">>],
        [subcategory |-> "Kruiden",
         keywords |-> <<"basilicum", "peterselie", "bieslook", "koriander", "munt", "dille",
                        "rozemarijn", "tijm">>],
        [subcategory |-> "Peulvruchten",
         keywords |-> <<"bonen", "kikkererwten", "linzen", "erwten", "peulvruchten">>],
        [subcategory |-> "Salades",
         keywords |-> <<"salade", "sla", "rucola", "rauwkost">>],
        [subcategory |-> "Aardappelen",
         keywords |-> <<"aardappel", "krieltjes", "puree", "friet">>] >>],
    [category |-> "Vlees & Vis",
     subcategories |-> <<
        [subcategory |-> "Kip",
         keywords |-> <<"kip", "kipfilet", "kipgehakt", "kipdij", "drumstick", "vleugel">>],
        [subcategory |-> "Rund & Varken",
         keywords |-> <<"rund", "varken", "gehakt", "biefstuk", "schnitzel", "sparerib",
                        "bacon", "spek">>],
        [subcategory |-> "Vis",
         keywords |-> <<"zalm", "tonijn", "kabeljauw", "garnaal", "vis", "forel", "makreel">>],
        [subcategory |-> "Vleeswaren",
         keywords |-> <<"ham", "salami", "filet americain", "rosbief", "chorizo", "pancetta",
                        "prosciutto">>],
        [subcategory |-> "Vegetarisch & Vegan",
         keywords |-> <<"vegetarisch", "vegan", "plantaardig", "tofu", "tempeh", "vivera">>],
        [subcategory |-> "Wild & Gevogelte",
         keywords |-> <<"kalkoen", "eend", "konijn", "wild">>] >>],
    [category |-> "Dranken",
     subcategories |-> <<
        [subcategory |-> "Koffie",
         keywords |-> <<"koffie", "espresso", "lungo", "nespresso", "cappuccino">>],
        [subcategory |-> "Thee",
         keywords |-> <<"thee", "tea", "pukka", "pickwick", "lipton">>],
        [subcategory |-> "Frisdrank",
         keywords |-> <<"cola", "fanta", "sprite", "pepsi", "sinas", "frisdrank",
                        "dr pepper">>],
        [subcategory |-> "Sap & Smoothies",
         keywords |-> <<"sap", "jus", "smoothie", "appelsap", "sinaasappelsap">>],
        [subcategory |-> "Bier",
         keywords |-> <<"bier", "leffe", "heineken", "amstel", "jupiler", "hertog jan",
                        "ipa", "pils">>],
        [subcategory |-> "Wijn",
         keywords |-> <<"wijn", "sauvignon", "chardonnay", "merlot", "pinot", "prosecco",
                        "champagne">>],
        [subcategory |-> "Sterke Drank",
         keywords |-> <<"whisky", "vodka", "rum", "gin", "jenever", "likeur">>],
        [subcategory |-> "Water",
         keywords |-> <<"water", "spa", "chaudfontaine", "bar le duc">>],
        [subcategory |-> "Sportdranken",
         keywords |-> <<"red bull", "energy", "sportdrank", "aquarius", "aa drink">>],
        [subcategory |-> "Plantaardige Dranken",
         keywords |-> <<"haverdrink", "sojadrink", "amandeldrink", "kokosdrink">>] >>],
    [category |-> "Snacks & Zoetwaren",
     subcategories |-> <<
        [subcategory |-> "Chips & Noten",
         keywords |-> <<"chips", "noten", "pinda", "cashew", "pistache", "borrelnoot">>],
        [subcategory |-> "Snoep",
         keywords |-> <<"snoep", "drop", "winegum", "lolly", "haribo", "smint", "mentos">>],
        [subcategory |-> "Chocolade",
         keywords |-> <<"chocola", "bonbon", "praline", "reep", "tony", "milka">>],
        [subcategory |-> "Koekjes",
         keywords |-> <<"koek", "biscuit", "speculaas", "stroopwafel", "bastogne">>],
        [subcategory |-> "Ijs",
         keywords |-> <<"ijs", "magnum", "cornetto", "ben & jerry">>] >>],
    [category |-> "Brood & Bakkerij",
     subcategories |-> <<
        [subcategory |-> "Brood",
         keywords |-> <<"brood", "boterham", "volkoren", "wit brood", "meergranen",
                        "pistolet">>],
        [subcategory |-> "Gebak & Taart",
         keywords |-> <<"taart", "gebak", "croissant", "appeltaart", "tompouce">>],
        [subcategory |-> "Ontbijtproducten",
         keywords |-> <<"muesli", "havermout", "cornflakes", "cruesli", "granola">>],
        [subcategory |-> "Crackers & Toast",
         keywords |-> <<"cracker", "toast", "beschuit", "knäckebröd">>] >>],
    [category |-> "Sauzen & Specerijen",
     subcategories |-> <<
        [subcategory |-> "Sauzen",
         keywords |-> <<"saus", "mayonaise", "ketchup", "mosterd", "aioli">>],
        [subcategory |-> "Kruiden & Specerijen",
         keywords |-> <<"kruiden", "peper", "zout", "paprikapoeder", "komijn", "kerrie">>],
        [subcategory |-> "Olie & Azijn",
         keywords |-> <<"olie", "olijfolie", "azijn", "balsamico">>],
        [subcategory |-> "Pasta Sauzen",
         keywords |-> <<"pesto", "pastasaus", "bolognese", "arrabiata">>] >>]
  >>

\* receipt_parser.py ABBREVIATION_MAP: abbreviation -> full name, in declaration order.
ABBREVIATION_MAP ==
  <<
    [abbrev |-> "SNOEP PAPRIK", full |-> "AH Snoeppaprika"],
    [abbrev |-> "TROSTOMAAT", full |-> "AH Trostomaten"],
    [abbrev |-> "BIO POMPOEN", full |-> "AH Biologische pompoen"],
    [abbrev |-> "AH BANANEN", full |-> "AH Bananen"],
    [abbrev |-> "AH RAUWKOST", full |-> "AH Rauwkostsalade"],
    [abbrev |-> "PAPRIKA GEEL", full |-> "AH Paprika geel"],
    [abbrev |-> "SNOEPGROENTE", full |-> "AH Snoepgroente"],
    [abbrev |-> "MANDARIJNEN", full |-> "AH Mandarijnen"],
    [abbrev |-> "DRUIVEN", full |-> "AH Druiven"],
    [abbrev |-> "PETERSELIE", full |-> "AH Peterselie"],
    [abbrev |-> "KNOFLOOK", full |-> "AH Knoflook"],
    [abbrev |-> "KOMKOMMER", full |-> "AH Komkommer"],
    [abbrev |-> "AH HV MELK", full |-> "AH Halfvolle melk"],
    [abbrev |-> "ALPRO MILD&C", full |-> "Alpro Mild & Creamy yoghurt"],
    [abbrev |-> "AH KR MUESLI", full |-> "AH Krokante muesli"],
    [abbrev |-> "AH HAVERDRIN", full |-> "AH Haverdrink"],
    [abbrev |-> "BECEL LIGHT", full |-> "Becel Light margarine"],
    [abbrev |-> "AH KLEINTJE", full |-> "AH Kleintje vla"],
    [abbrev |-> "AH EXC WIJN", full |-> "AH Excellent wijn"],
    [abbrev |-> "AH SAUV BL", full |-> "AH Sauvignon Blanc wijn"],
    [abbrev |-> "LEFFE BLOND", full |-> "Leffe Blond bier"],
    [abbrev |-> "LEFFE", full |-> "Leffe bier"],
    [abbrev |-> "DE LUNGO", full |-> "Nespresso De Lungo koffie"],
    [abbrev |-> "RED BULL", full |-> "Red Bull energy drink"],
    [abbrev |-> "AH PISTOLETS", full |-> "AH Pistoletbroodjes"],
    [abbrev |-> "AH HAVERMOUT", full |-> "AH Havermout"],
    [abbrev |-> "AH TAARTDEEG", full |-> "AH Taartdeeg"],
    [abbrev |-> "MINI CRACKER", full |-> "AH Mini crackers"],
    [abbrev |-> "AH GOUDSE", full |-> "AH Goudse kaas"],
    [abbrev |-> "GRUYERE", full |-> "AH Gruyère kaas"],
    [abbrev |-> "PECORINO", full |-> "Pecorino kaas"],
    [abbrev |-> "AH RIJSTWAF", full |-> "AH Rijstwafels"],
    [abbrev |-> "CHEESE BITES", full |-> "AH Cheese bites"],
    [abbrev |-> "AH NOTEN", full |-> "AH Notenmix"],
    [abbrev |-> "PECANNOTEN", full |-> "AH Pecannoten"],
    [abbrev |-> "MUSKETBOMEN", full |-> "Musketbomen gebak"],
    [abbrev |-> "AH HAGELSLAG", full |-> "AH Hagelslag chocolade"],
    [abbrev |-> "KIPGEHAKT", full |-> "AH Kipgehakt"],
    [abbrev |-> "AH PANCETTA", full |-> "AH Pancetta spek"],
    [abbrev |-> "AH CHUTNEY", full |-> "AH Chutney saus"],
    [abbrev |-> "AH BOEMBOE", full |-> "AH Boemboe kruidenpasta"],
    [abbrev |-> "PICARD", full |-> "Picard diepvriesmaaltijd"]
  >>

\* receipt_parser.py extract_products_from_receipt: stop_markers.
stop_markers ==
  <<"SUBTOTAAL", "BONUS ", "UW VOORDEEL", "TOTAAL", "BETAALD", "SPAARACTIES", "KOOPZEGELS">>

\* receipt_parser.py guess_btw: btw_21_keywords.
btw_21_keywords ==
  <<"leffe", "wijn", "bier", "whisky", "vodka", "rum", "gin", "red bull", "cola", "fanta",
    "sprite", "pepsi", "7up", "statiegeld", "plastic", "verpakking", "shampoo", "tandpasta",
    "zeep", "douche", "deo", "schoonmaak", "afwasmiddel">>

\* parser.py extract_products_from_text: skip_patterns.
skip_patterns ==
  <<"statiegeld", "retour", "klapkrat", "bezorgkosten", "verpakkingsmateriaal",
    "plastic verpakking", "koopzegels", "pagina ", "datum ", "factuurnummer",
    "debiteurnummer", "bestelling", "afleverdatum", "bezorgadres", "totaal", "boodschappen",
    "alle bedragen", "vragen over">>

----------------------------------------------------------------------------
(* parser.py: CATEGORY_KEYWORDS is a module-level dict that                *)
(* add_keyword_to_category and remove_keyword_from_category change in      *)
(* place.  The state keeps the successful changes in order; the table is   *)
(* the loaded table with those changes applied.                            *)

\* list.remove(x): the list without the first element equal to x.
RemoveFirst(list, x) ==
  LET k == CHOOSE n \in 1..Len(list) : list[n] = x /\ \A m \in 1..(n - 1) : list[m] # x
  IN  SubSeq(list, 1, k - 1) \o SubSeq(list, k + 1, Len(list))

ApplyEdit(table, edit) ==
  [e \in 1..Len(table) |->
     IF table[e].category # edit.category THEN table[e]
     ELSE [table[e] EXCEPT !.keywords =
             IF edit.op = "append" THEN Append(@, edit.keyword)
             ELSE RemoveFirst(@, edit.keyword)]]

RECURSIVE ApplyEdits(_, _)
ApplyEdits(table, edits) ==
  IF edits = <<>> THEN table
  ELSE ApplyEdits(ApplyEdit(table, Head(edits)), Tail(edits))

CATEGORY_KEYWORDS == ApplyEdits(InitialCategoryKeywords, keyword_edits)

----------------------------------------------------------------------------
(* parser.py: the normalizer and the classifier.                           *)

\* Mutant: the suffix is cut without trimming what is left.
normalize_without_retrim(name) ==
  LET stripped == strip(name)
  IN  IF endswith(upper(stripped), " BONUS")
      THEN SubSeq(stripped, 1, Len(stripped) - 6)
      ELSE stripped

\* Mutant: the suffix is looked for in upper case only.
normalize_case_sensitive(name) ==
  LET stripped == strip(name)
  IN  IF endswith(stripped, " BONUS")
      THEN strip(SubSeq(stripped, 1, Len(stripped) - 6))
      ELSE stripped

normalize_product_name(name) ==
  LET stripped == strip(name)
  IN  IF endswith(upper(stripped), " BONUS")
      THEN strip(SubSeq(stripped, 1, Len(stripped) - 6))
      ELSE stripped

\* The inner loop "for keyword in keywords: if keyword in product_lower: return":
\* whether it returns.
KeywordIn(keywords, parts) == \E k \in 1..Len(keywords) : keywords[k] \in parts

KeywordFound(keywords, text) == KeywordIn(keywords, Substrings(text))

\* The outer loop over a table of entries that each hold a keyword list: the index
\* of the entry at which the function returns, 0 when the loop runs to its end.
FirstEntryIn(table, parts) ==
  LET found == {e \in 1..Len(table) : KeywordIn(table[e].keywords, parts)}
  IN  IF found = {} THEN 0 ELSE Min(found)

FirstEntry(table, text) == FirstEntryIn(table, Substrings(text))

\* Mutant: the general table is consulted before the priority rules.
categorize_general_first(product_name) ==
  LET normalized == normalize_product_name(product_name)
      product_lower == lower(normalized)
      rule == FirstEntry(priority_rules, product_lower)
      entry == FirstEntry(CATEGORY_KEYWORDS, product_lower)
  IN  IF entry # 0 THEN CATEGORY_KEYWORDS[entry].category
      ELSE IF rule # 0 THEN priority_rules[rule].category
      ELSE "Overig"

categorize_product(product_name) ==
  LET normalized == normalize_product_name(product_name)
      product_lower == lower(normalized)
      rule == FirstEntry(priority_rules, product_lower)
      entry == FirstEntry(CATEGORY_KEYWORDS, product_lower)
  IN  IF rule # 0 THEN priority_rules[rule].category
      ELSE IF entry # 0 THEN CATEGORY_KEYWORDS[entry].category
      ELSE "Overig"

\* The position of main_category in SUBCATEGORY_KEYWORDS, 0 when it is no key.
SubcategoryEntry(main_category) ==
  IF \E e \in 1..Len(SUBCATEGORY_KEYWORDS) : SUBCATEGORY_KEYWORDS[e].category = main_category
  THEN CHOOSE e \in 1..Len(SUBCATEGORY_KEYWORDS) :
         SUBCATEGORY_KEYWORDS[e].category = main_category
  ELSE 0

\* Mutant: the subcategories of every category are searched.
determine_subcategory_any_category(product_name, main_category) ==
  LET product_lower == lower(product_name)
      hits == {e \in 1..Len(SUBCATEGORY_KEYWORDS) :
                 FirstEntry(SUBCATEGORY_KEYWORDS[e].subcategories, product_lower) # 0}
      subcats == SUBCATEGORY_KEYWORDS[Min(hits)].subcategories
  IN  IF hits = {} THEN None
      ELSE subcats[FirstEntry(subcats, product_lower)].subcategory

determine_subcategory(product_name, main_category) ==
  IF SubcategoryEntry(main_category) = 0 THEN None
  ELSE LET product_lower == lower(product_name)
           subcats == SUBCATEGORY_KEYWORDS[SubcategoryEntry(main_category)].subcategories
           hit == FirstEntry(subcats, product_lower)
       IN  IF hit # 0 THEN subcats[hit].subcategory ELSE None

categorize_product_full(product_name) ==
  LET category == categorize_product(product_name)
  IN  [category |-> category,
       subcategory |-> determine_subcategory(product_name, category)]

----------------------------------------------------------------------------
(* receipt_parser.py: the abbreviation expander.                           *)

\* "for abbrev, full in ABBREVIATION_MAP.items(): if name.upper().startswith(abbrev)":
\* the index of the entry at which the function returns, 0 when the loop runs to
\* its end.
FirstAbbrevPrefix(name_upper) ==
  LET found == {e \in 1..Len(ABBREVIATION_MAP) :
                  startswith(name_upper, ABBREVIATION_MAP[e].abbrev)}
  IN  IF found = {} THEN 0 ELSE Min(found)

\* Mutant: the last matching abbreviation wins instead of the first.
expand_last_prefix(name0) ==
  LET name == strip(name0)
      exact == {e \in 1..Len(ABBREVIATION_MAP) : ABBREVIATION_MAP[e].abbrev = upper(name)}
      found == {e \in 1..Len(ABBREVIATION_MAP) :
                  startswith(upper(name), ABBREVIATION_MAP[e].abbrev)}
  IN  IF exact # {} THEN ABBREVIATION_MAP[CHOOSE e \in exact : TRUE].full
      ELSE IF found # {}
           THEN ABBREVIATION_MAP[Max(found)].full
                  \o From(name, Len(ABBREVIATION_MAP[Max(found)].abbrev))
      ELSE name

\* Mutant: without a match the argument is returned as it came.
expand_returns_argument(name0) ==
  LET name == strip(name0)
      exact == {e \in 1..Len(ABBREVIATION_MAP) : ABBREVIATION_MAP[e].abbrev = upper(name)}
      partial == FirstAbbrevPrefix(upper(name))
  IN  IF exact # {} THEN ABBREVIATION_MAP[CHOOSE e \in exact : TRUE].full
      ELSE IF partial # 0
           THEN ABBREVIATION_MAP[partial].full \o From(name, Len(ABBREVIATION_MAP[partial].abbrev))
      ELSE name0

expand_abbreviation(name0) ==
  LET name == strip(name0)
      exact == {e \in 1..Len(ABBREVIATION_MAP) : ABBREVIATION_MAP[e].abbrev = upper(name)}
      partial == FirstAbbrevPrefix(upper(name))
  IN  IF exact # {} THEN ABBREVIATION_MAP[CHOOSE e \in exact : TRUE].full
      ELSE IF partial # 0
           THEN ABBREVIATION_MAP[partial].full \o From(name, Len(ABBREVIATION_MAP[partial].abbrev))
      ELSE name

----------------------------------------------------------------------------
(* parser.py: the run-time changes of the keyword table.                   *)

\* CATEGORY_KEYWORDS[category], and "category in CATEGORY_KEYWORDS".
HasCategory(category) ==
  \E e \in 1..Len(CATEGORY_KEYWORDS) : CATEGORY_KEYWORDS[e].category = category

KeywordsOf(category) ==
  CATEGORY_KEYWORDS[CHOOSE e \in 1..Len(CATEGORY_KEYWORDS) :
                      CATEGORY_KEYWORDS[e].category = category].keywords

InList(x, list) == \E k \in 1..Len(list) : list[k] = x

\* Mutant: a keyword that is already in the list is appended again.
add_keyword_again(category, keyword0) ==
  LET keyword == strip(lower(keyword0))
  IN  IF keyword = ""
      THEN [success |-> FALSE, error |-> "Keyword cannot be empty", edit |-> None]
      ELSE IF ~HasCategory(category)
      THEN [success |-> FALSE, error |-> "Category '" \o category \o "' not found",
            edit |-> None]
      ELSE [success |-> TRUE, error |-> None,
            edit |-> [op |-> "append", category |-> category, keyword |-> keyword]]

\* Mutant: the keyword is appended as it was passed, lower-cased only.
add_keyword_untrimmed(category, keyword0) ==
  LET keyword == strip(lower(keyword0))
  IN  IF keyword = ""
      THEN [success |-> FALSE, error |-> "Keyword cannot be empty", edit |-> None]
      ELSE IF ~HasCategory(category)
      THEN [success |-> FALSE, error |-> "Category '" \o category \o "' not found",
            edit |-> None]
      ELSE IF InList(keyword, KeywordsOf(category))
      THEN [success |-> FALSE,
            error |-> "Keyword '" \o keyword \o "' already exists in " \o category,
            edit |-> None]
      ELSE [success |-> TRUE, error |-> None,
            edit |-> [op |-> "append", category |-> category, keyword |-> lower(keyword0)]]

\* What add_keyword_to_category returns; "edit" is the change it makes to the
\* table, None when it makes none.
add_keyword_to_category(category, keyword0) ==
  LET keyword == strip(lower(keyword0))
  IN  IF keyword = ""
      THEN [success |-> FALSE, error |-> "Keyword cannot be empty", edit |-> None]
      ELSE IF ~HasCategory(category)
      THEN [success |-> FALSE, error |-> "Category '" \o category \o "' not found",
            edit |-> None]
      ELSE IF InList(keyword, KeywordsOf(category))
      THEN [success |-> FALSE,
            error |-> "Keyword '" \o keyword \o "' already exists in " \o category,
            edit |-> None]
      ELSE [success |-> TRUE, error |-> None,
            edit |-> [op |-> "append", category |-> category, keyword |-> keyword]]

remove_keyword_from_category(category, keyword0) ==
  LET keyword == strip(lower(keyword0))
  IN  IF ~HasCategory(category)
      THEN [success |-> FALSE, error |-> "Category '" \o category \o "' not found",
            edit |-> None]
      ELSE IF ~InList(keyword, KeywordsOf(category))
      THEN [success |-> FALSE,
            error |-> "Keyword '" \o keyword \o "' not found in " \o category,
            edit |-> None]
      ELSE [success |-> TRUE, error |-> None,
            edit |-> [op |-> "remove", category |-> category, keyword |-> keyword]]

\* A call of one of the two, as the route handlers of app.py make it.
Mutate(name, category, keyword, result) ==
  /\ mutation' = [fn |-> name, category |-> category, keyword |-> keyword,
                  success |-> result.success, error |-> result.error]
  /\ keyword_edits' = IF result.success THEN Append(keyword_edits, result.edit)
                      ELSE keyword_edits

----------------------------------------------------------------------------
(* Numbers read from text.                                                 *)

DigitChars == "0123456789"

DigitValue(c) == (CHOOSE k \in 1..Len(DigitChars) : Ch(DigitChars, k) = c) - 1

\* int(digits)
RECURSIVE ToInt(_)
ToInt(digits) ==
  IF digits = "" THEN 0
  ELSE 10 * ToInt(SubSeq(digits, 1, Len(digits) - 1)) + DigitValue(Ch(digits, Len(digits)))

RECURSIVE Pow10(_)
Pow10(n) == IF n = 0 THEN 1 ELSE 10 * Pow10(n - 1)

\* digits without the zeros at their end
RECURSIVE DropTrailingZeros(_)
DropTrailingZeros(digits) ==
  IF digits # "" /\ Ch(digits, Len(digits)) = "0"
  THEN DropTrailingZeros(SubSeq(digits, 1, Len(digits) - 1))
  ELSE digits

\* float("<whole>.<fraction>"): the number mantissa / 10^places, in lowest form, so
\* that two floats are equal exactly when their records are.
Decimal(whole, fraction) ==
  [mantissa |-> ToInt(whole \o DropTrailingZeros(fraction)),
   places |-> Len(DropTrailingZeros(fraction))]

\* The position of the first "," or "." of the text, 0 without one.
SeparatorAt(text) ==
  LET at == {k \in 1..Len(text) : Ch(text, k) \in {",", "."}}
  IN  IF at = {} THEN 0 ELSE Min(at)

\* float(text.replace(',', '.')) for a text of the shape \d+[.,]\d+
ToFloat(text) ==
  Decimal(SubSeq(text, 1, SeparatorAt(text) - 1), SubSeq(text, SeparatorAt(text) + 1, Len(text)))

\* str(n) for n >= 0
RECURSIVE ToStr(_)
ToStr(n) ==
  IF n < 10 THEN Ch(DigitChars, n + 1)
  ELSE ToStr(n \div 10) \o Ch(DigitChars, (n % 10) + 1)

\* f"{weight:.3f}": the weight rounded to the nearest thousandth.  (For a weight
\* exactly half way between two thousandths the binary value of the float
\* decides; no weight of the lines checked here is.)
Format3(weight) ==
  LET scaled == weight.mantissa * 1000
      unit == Pow10(weight.places)
      down == scaled \div unit
      rest == scaled % unit
      thousandths == IF 2 * rest > unit \/ (2 * rest = unit /\ down % 2 = 1)
                     THEN down + 1 ELSE down
      fraction == ToStr(thousandths % 1000)
  IN  ToStr(thousandths \div 1000) \o "."
        \o SubSeq("000", 1, 3 - Len(fraction)) \o fraction

----------------------------------------------------------------------------
(* receipt_parser.py: the three line shapes of parse_product_line.         *)

\* The last position of the run of digits (of whitespace) that starts at p;
\* p - 1 when there is none.
RECURSIVE DigitRunEnd(_, _)
DigitRunEnd(s, p) ==
  IF p <= Len(s) /\ IsDigit(Ch(s, p)) THEN DigitRunEnd(s, p + 1) ELSE p - 1

RECURSIVE SpaceRunEnd(_, _)
SpaceRunEnd(s, p) ==
  IF p <= Len(s) /\ IsSpace(Ch(s, p)) THEN SpaceRunEnd(s, p + 1) ELSE p - 1

\* \d+[,\.]\d{2} at p: the position of its last character, 0 when it does not match.
AmountEnd(s, p) ==
  LET d == DigitRunEnd(s, p)
  IN  IF /\ d >= p
         /\ d + 3 <= Len(s)
         /\ Ch(s, d + 1) \in {",", "."}
         /\ IsDigit(Ch(s, d + 2))
         /\ IsDigit(Ch(s, d + 3))
      THEN d + 3 ELSE 0

\* (?:\s+B)?$ at p, the position after an amount: the line ends there, or after
\* whitespace and one B (with re.IGNORECASE also b).
EndsWithOptionalB(s, p, ignorecase) ==
  \/ p = Len(s) + 1
  \/ LET w == SpaceRunEnd(s, p)
     IN  /\ w >= p
         /\ w + 1 = Len(s)
         /\ Ch(s, Len(s)) \in (IF ignorecase THEN {"B", "b"} ELSE {"B"})

NoMatch == [matched |-> FALSE]

\* \s+(\d+[,\.]\d{2})\s+(\d+[,\.]\d{2})(?:\s+B)?$ at p: the two amounts.
TwoAmounts(s, p, ignorecase) ==
  LET w1 == SpaceRunEnd(s, p)
      a1 == AmountEnd(s, w1 + 1)
      w2 == SpaceRunEnd(s, a1 + 1)
      a2 == AmountEnd(s, w2 + 1)
  IN  IF w1 >= p /\ a1 # 0 /\ w2 >= a1 + 1 /\ a2 # 0
         /\ EndsWithOptionalB(s, a2 + 1, ignorecase)
      THEN [matched |-> TRUE, first |-> SubSeq(s, w1 + 1, a1), last |-> SubSeq(s, w2 + 1, a2)]
      ELSE NoMatch

\* \s+(\d+[,\.]\d{2})(?:\s+B)?$ at p: the one amount.
OneAmount(s, p, ignorecase) ==
  LET w1 == SpaceRunEnd(s, p)
      a1 == AmountEnd(s, w1 + 1)
  IN  IF w1 >= p /\ a1 # 0 /\ EndsWithOptionalB(s, a1 + 1, ignorecase)
      THEN [matched |-> TRUE, first |-> SubSeq(s, w1 + 1, a1), last |-> SubSeq(s, w1 + 1, a1)]
      ELSE NoMatch

\* The amounts behind the name: two of them for the weighed and the multi-unit
\* shape, one for the single-unit shape.
Amounts(s, p, two, ignorecase) ==
  IF two THEN TwoAmounts(s, p, ignorecase) ELSE OneAmount(s, p, ignorecase)

\* \s+(.+?)<amounts>$ at p, where the whitespace ends at w at the latest: the
\* starts and ends a name may have, the amounts matching behind it.
NameSplits(s, p, w, two, ignorecase) ==
  {ne \in ((p + 1)..(w + 1)) \X ((p + 1)..Len(s)) :
     /\ ne[1] <= ne[2]
     /\ Amounts(s, ne[2] + 1, two, ignorecase).matched}

\* The greedy \s+ gives whitespace back only when no name works with all of it:
\* the latest start.  The lazy name is the shortest one from there.
LatestStart(splits) == Max({ne[1] : ne \in splits})

ShortestEnd(splits, start) == Min({ne[2] : ne \in {x \in splits : x[1] = start}})

NameAndAmounts(s, start, end, two, ignorecase) ==
  [matched |-> TRUE, name |-> SubSeq(s, start, end),
   amounts |-> Amounts(s, end + 1, two, ignorecase)]

NameOfSplits(s, splits, two, ignorecase) ==
  IF splits = {} THEN NoMatch
  ELSE NameAndAmounts(s, LatestStart(splits), ShortestEnd(splits, LatestStart(splits)),
                      two, ignorecase)

NameThenAmounts(s, p, two, ignorecase) ==
  IF SpaceRunEnd(s, p) < p THEN NoMatch
  ELSE NameOfSplits(s, NameSplits(s, p, SpaceRunEnd(s, p), two, ignorecase), two, ignorecase)

\* ^(\d+[.,]\d+)KG at the start of the line, re.IGNORECASE: the position of the G,
\* 0 when it does not match.
WeightEnd(s) ==
  LET d1 == DigitRunEnd(s, 1)
      d2 == DigitRunEnd(s, d1 + 2)
  IN  IF /\ d1 >= 1
         /\ d1 + 1 <= Len(s) /\ Ch(s, d1 + 1) \in {".", ","}
         /\ d2 >= d1 + 2
         /\ d2 + 2 <= Len(s)
         /\ Ch(s, d2 + 1) \in {"K", "k"}
         /\ Ch(s, d2 + 2) \in {"G", "g"}
      THEN d2 + 2 ELSE 0

\* The groups of a match whose first group ends at position last and whose name
\* and amounts are m.
GroupsOf(line, last, m, two) ==
  IF ~m.matched THEN NoMatch
  ELSE IF two
  THEN [matched |-> TRUE, group1 |-> SubSeq(line, 1, last),
        group2 |-> m.name, group3 |-> m.amounts.first, group4 |-> m.amounts.last]
  ELSE [matched |-> TRUE, group1 |-> SubSeq(line, 1, last),
        group2 |-> m.name, group3 |-> m.amounts.first]

WeightMatchAt(line, g) ==
  IF g = 0 THEN NoMatch
  ELSE GroupsOf(line, g - 2, NameThenAmounts(line, g + 1, TRUE, TRUE), TRUE)

CountMatchAt(line, d, two) ==
  IF d = 0 THEN NoMatch
  ELSE GroupsOf(line, d, NameThenAmounts(line, d + 1, two, FALSE), two)

\* weight_match, multi_match and single_match of parse_product_line.
weight_match(line) == WeightMatchAt(line, WeightEnd(line))

multi_match(line) == CountMatchAt(line, DigitRunEnd(line, 1), TRUE)

single_match(line) == CountMatchAt(line, DigitRunEnd(line, 1), FALSE)

\* re.sub(r'\s+B$', '', name)
StripTrailingB(name) ==
  IF Len(name) >= 2 /\ Ch(name, Len(name)) = "B" /\ IsSpace(Ch(name, Len(name) - 1))
  THEN LET solid == {k \in 1..(Len(name) - 1) : ~IsSpace(Ch(name, k))}
       IN  IF solid = {} THEN "" ELSE SubSeq(name, 1, Max(solid))
  ELSE name

\* Mutant: the keywords are looked up in the name as written.
guess_btw_case_sensitive(product_name) ==
  IF KeywordFound(btw_21_keywords, product_name) THEN "21%" ELSE "9%"

guess_btw(product_name) ==
  IF KeywordFound(btw_21_keywords, lower(product_name)) THEN "21%" ELSE "9%"

\* parse_product_line's "return None" (a value apart from every product record).
NoProduct == [none |-> TRUE]

\* "name = expand_abbreviation(name)", "name = normalize_product_name(name)"
ResolvedName(name) == normalize_product_name(expand_abbreviation(name))

\* Mutant: a weighed item takes the tax rate its name suggests.
weighed_item_guessed_btw(name, m) ==
  [name |-> name \o " (" \o Format3(ToFloat(m.group1)) \o "kg)",
   quantity |-> 1,
   price |-> ToFloat(m.group4),
   btw |-> guess_btw(name),
   category |-> categorize_product(name),
   subcategory |-> determine_subcategory(name, categorize_product(name)),
   weight_kg |-> ToFloat(m.group1)]

\* The dict returned for a weighed item with the resolved name.
weighed_item(name, m) ==
  [name |-> name \o " (" \o Format3(ToFloat(m.group1)) \o "kg)",
   quantity |-> 1,
   price |-> ToFloat(m.group4),
   btw |-> "9%",
   category |-> categorize_product(name),
   subcategory |-> determine_subcategory(name, categorize_product(name)),
   weight_kg |-> ToFloat(m.group1)]

\* Mutant: several units are emitted at the price of one.
counted_item_unit_price(name, quantity, price, unit_price) ==
  [name |-> name,
   quantity |-> quantity,
   price |-> unit_price,
   btw |-> guess_btw(name),
   category |-> categorize_product(name),
   subcategory |-> determine_subcategory(name, categorize_product(name))]

\* The dict returned for a line with a count, with the resolved name; price is
\* the last amount of the line, unit_price the first.
counted_item(name, quantity, price, unit_price) ==
  [name |-> name,
   quantity |-> quantity,
   price |-> price,
   btw |-> guess_btw(name),
   category |-> categorize_product(name),
   subcategory |-> determine_subcategory(name, categorize_product(name))]

\* "if weight_match:"
weighed_product(m) == weighed_item(ResolvedName(strip(m.group2)), m)

\* "if multi_match:"
multi_product(m) ==
  counted_item(ResolvedName(StripTrailingB(strip(m.group2))), ToInt(m.group1),
               ToFloat(m.group4), ToFloat(m.group3))

\* "if single_match:"
single_product(m) ==
  counted_item(ResolvedName(StripTrailingB(strip(m.group2))), ToInt(m.group1),
               ToFloat(m.group3), ToFloat(m.group3))

\* The three shapes are tried in this order; the first that matches decides.
FirstShape(weight, multi, single) ==
  IF weight.matched THEN weighed_product(weight)
  ELSE IF multi.matched THEN multi_product(multi)
  ELSE IF single.matched THEN single_product(single)
  ELSE NoProduct

parse_product_line(line) ==
  FirstShape(weight_match(line), multi_match(line), single_match(line))

----------------------------------------------------------------------------
(* receipt_parser.py: extract_products_from_receipt, a line at a time.     *)

\* The positions of the "\n" of a text, and text.split('\n').
NewlinesOf(text) == {k \in 1..Len(text) : Ch(text, k) = "\n"}

LineStart(text, n) ==
  IF n = 1 THEN 1
  ELSE 1 + (CHOOSE k \in NewlinesOf(text) :
              Cardinality({j \in NewlinesOf(text) : j <= k}) = n - 1)

LineEnd(text, n) ==
  IF n = Cardinality(NewlinesOf(text)) + 1 THEN Len(text)
  ELSE (CHOOSE k \in NewlinesOf(text) :
          Cardinality({j \in NewlinesOf(text) : j <= k}) = n) - 1

split(text) ==
  [n \in 1..(Cardinality(NewlinesOf(text)) + 1) |->
     SubSeq(text, LineStart(text, n), LineEnd(text, n))]

\* "not line or 'OMSCHRIJVING' in line or 'BONUSKAART' in line or 'AIRMILES' in line"
IsBlankOrHeader(line) ==
  \/ line = ""
  \/ Contains(line, "OMSCHRIJVING")
  \/ Contains(line, "BONUSKAART")
  \/ Contains(line, "AIRMILES")

\* Mutant: the markers are looked for in the line as written.
should_stop_case_sensitive(line) ==
  \E m \in 1..Len(stop_markers) : Contains(line, stop_markers[m])

\* "for marker in stop_markers: if marker in line.upper(): should_stop = True"
should_stop(line) ==
  \E m \in 1..Len(stop_markers) : Contains(upper(line), stop_markers[m])

\* "line.startswith('+STATIEGELD') or 'STATIEGELD' in line.upper()"
IsDeposit(line) ==
  startswith(line, "+STATIEGELD") \/ Contains(upper(line), "STATIEGELD")

----------------------------------------------------------------------------
(* parser.py: extract_products_from_text, a match of product_pattern at a  *)
(* time.                                                                   *)

\* The letters with accents that product_pattern lists.
AccentedLetters == "àáâãäåæçèéêëìíîïðñòóôõöøùúûüýþÿÀÁÂÃÄÅÆÇÈÉÊËÌÍÎÏÐÑÒÓÔÕÖØÙÚÛÜÝÞß"

\* [A-Za-z0-9...'&\s\-\+\.%]
IsNameChar(c) ==
  \/ c \in DOMAIN ToUpper
  \/ c \in DOMAIN ToLower
  \/ IsDigit(c)
  \/ IsSpace(c)
  \/ c \in {"'", "&", "-", "+", ".", "%"}
  \/ \E k \in 1..Len(AccentedLetters) : Ch(AccentedLetters, k) = c

\* The last position of the run of [\d,] that starts at p; p - 1 when there is none.
RECURSIVE NumberRunEnd(_, _)
NumberRunEnd(s, p) ==
  IF p <= Len(s) /\ (IsDigit(Ch(s, p)) \/ Ch(s, p) = ",")
  THEN NumberRunEnd(s, p + 1)
  ELSE p - 1

\* (9%|21%|Geen) at p: the position of its last character, 0 when it does not match.
TaxEnd(s, p) ==
  IF p + 1 <= Len(s) /\ SubSeq(s, p, p + 1) = "9%" THEN p + 1
  ELSE IF p + 2 <= Len(s) /\ SubSeq(s, p, p + 2) = "21%" THEN p + 2
  ELSE IF p + 3 <= Len(s) /\ SubSeq(s, p, p + 3) = "Geen" THEN p + 3
  ELSE 0

\* \s+(\d+)\s+(9%|21%|Geen)\s+([\d,]+)\s+([\d,]+)\s+([\d,]+)$ at p, re.MULTILINE.
Columns(text, p) ==
  LET w1 == SpaceRunEnd(text, p)
      q == DigitRunEnd(text, w1 + 1)
      w2 == SpaceRunEnd(text, q + 1)
      t == TaxEnd(text, w2 + 1)
      w3 == SpaceRunEnd(text, t + 1)
      n1 == NumberRunEnd(text, w3 + 1)
      w4 == SpaceRunEnd(text, n1 + 1)
      n2 == NumberRunEnd(text, w4 + 1)
      w5 == SpaceRunEnd(text, n2 + 1)
      n3 == NumberRunEnd(text, w5 + 1)
  IN  IF /\ w1 >= p /\ q > w1 /\ w2 > q /\ t # 0 /\ w3 > t
         /\ n1 > w3 /\ w4 > n1 /\ n2 > w4 /\ w5 > n2 /\ n3 > w5
         /\ (n3 = Len(text) \/ Ch(text, n3 + 1) = "\n")
      THEN [matched |-> TRUE, group2 |-> SubSeq(text, w1 + 1, q),
            group3 |-> SubSeq(text, w2 + 1, t), group4 |-> SubSeq(text, w3 + 1, n1),
            group5 |-> SubSeq(text, w4 + 1, n2), group6 |-> SubSeq(text, w5 + 1, n3),
            end |-> n3]
      ELSE NoMatch

\* product_pattern at position s: ^ at the start of a line, [A-Z], then the
\* shortest run of name characters after which the columns match.
\* The last position of the run of name characters that starts at p.
NameRunEnd(text, p) ==
  LET stops == {k \in p..Len(text) : ~IsNameChar(Ch(text, k))}
  IN  IF stops = {} THEN Len(text) ELSE Min(stops) - 1

\* The ends a name that starts at s may have: the columns match behind them.
NameEnds(text, s) == {e \in (s + 1)..NameRunEnd(text, s + 1) : Columns(text, e + 1).matched}

MatchFrom(text, s, e) ==
  [matched |-> TRUE, start |-> s, group1 |-> SubSeq(text, s, e),
   columns |-> Columns(text, e + 1)]

PatternAt(text, s) ==
  IF /\ s <= Len(text)
     /\ (s = 1 \/ Ch(text, s - 1) = "\n")
     /\ Ch(text, s) \in DOMAIN ToLower
     /\ NameEnds(text, s) # {}
  THEN MatchFrom(text, s, Min(NameEnds(text, s)))
  ELSE NoMatch

\* finditer: the first match that starts at or after position from.
MatchStarts(text, from) == {s \in from..Len(text) : PatternAt(text, s).matched}

NextMatch(text, from) ==
  IF MatchStarts(text, from) = {} THEN NoMatch
  ELSE PatternAt(text, Min(MatchStarts(text, from)))

\* float(match.group(6).replace(",", ".")) raises ValueError unless the text is
\* digits with at most one separator.
IsFloatText(number) ==
  /\ Cardinality({k \in 1..Len(number) : Ch(number, k) = ","}) <= 1
  /\ \E k \in 1..Len(number) : IsDigit(Ch(number, k))

\* float(number.replace(",", ".")) for such a text
ToFloatColumn(number) ==
  IF SeparatorAt(number) = 0 THEN Decimal(number, "")
  ELSE Decimal(SubSeq(number, 1, SeparatorAt(number) - 1),
               SubSeq(number, SeparatorAt(number) + 1, Len(number)))

\* repr of a float, as the f-string of product_key writes it
FloatRepr(x) ==
  LET digits == ToStr(x.mantissa)
      padded == IF Len(digits) > x.places THEN digits
                ELSE SubSeq("0000000000", 1, x.places + 1 - Len(digits)) \o digits
  IN  IF x.places = 0 THEN digits \o ".0"
      ELSE SubSeq(padded, 1, Len(padded) - x.places) \o "."
             \o SubSeq(padded, Len(padded) - x.places + 1, Len(padded))

\* Mutant: a short name is not skipped.
IsSkipped_any_length(original_name) ==
  \/ KeywordFound(skip_patterns, lower(original_name))
  \/ LET bare == {k \in 1..Len(original_name) : Ch(original_name, k) # " "}
     IN  bare # {} /\ \A k \in bare : IsDigit(Ch(original_name, k))

\* "any(skip in name_lower for skip in skip_patterns)", "len(original_name) < 3"
\* and "original_name.replace(' ', '').isdigit()"
IsSkipped(original_name) ==
  \/ KeywordFound(skip_patterns, lower(original_name))
  \/ Len(original_name) < 3
  \/ LET bare == {k \in 1..Len(original_name) : Ch(original_name, k) # " "}
     IN  bare # {} /\ \A k \in bare : IsDigit(Ch(original_name, k))

\* Mutant: the key leaves the quantity out.
product_key_without_quantity(display_name, quantity, price_incl) ==
  display_name \o "_" \o FloatRepr(price_incl)

product_key(display_name, quantity, price_incl) ==
  display_name \o "_" \o ToStr(quantity) \o "_" \o FloatRepr(price_incl)

\* The number of the line that holds position p of the text.
LineOf(text, p) == 1 + Cardinality({k \in NewlinesOf(text) : k < p})

\* Mutant: the subcategory is looked up with the normalized name.
invoice_item_normalized_subcategory(original_name, category, m) ==
  [name |-> normalize_product_name(original_name),
   original_name_raw |-> original_name,
   quantity |-> ToInt(m.columns.group2),
   btw |-> m.columns.group3,
   price |-> ToFloatColumn(m.columns.group6),
   category |-> category,
   subcategory |-> determine_subcategory(normalize_product_name(original_name), category)]

\* Mutant: the price is the amount without tax.
invoice_item_price_excl(original_name, category, m) ==
  [name |-> normalize_product_name(original_name),
   original_name_raw |-> original_name,
   quantity |-> ToInt(m.columns.group2),
   btw |-> m.columns.group3,
   price |-> ToFloatColumn(m.columns.group4),
   category |-> category,
   subcategory |-> determine_subcategory(original_name, category)]

\* The dict the loop body appends for a match.
invoice_item(original_name, category, m) ==
  [name |-> normalize_product_name(original_name),
   original_name_raw |-> original_name,
   quantity |-> ToInt(m.columns.group2),
   btw |-> m.columns.group3,
   price |-> ToFloatColumn(m.columns.group6),
   category |-> category,
   subcategory |-> determine_subcategory(original_name, category)]

\* "original_name = match.group(1).strip()" ... "category = categorize_product(original_name)"
invoice_product(m) ==
  invoice_item(strip(m.group1), categorize_product(strip(m.group1)), m)

----------------------------------------------------------------------------
(* parser.py parse_invoice and receipt_parser.py parse_receipt: the date   *)
(* of a document.                                                          *)

\* parse_dutch_date: dutch_months, in the order of their numbers.
dutch_months ==
  <<"januari", "februari", "maart", "april", "mei", "juni", "juli", "augustus",
    "september", "oktober", "november", "december">>

\* str.zfill(2)
zfill2(digits) == IF Len(digits) < 2 THEN "0" \o digits ELSE digits

\* parse_dutch_date of the three parts of a date: the month is that of the
\* name, 1 for another word; datetime(year, month, day) raises ValueError for a
\* day the month does not have and for year 0; strftime writes the year
\* without leading zeros.
parse_dutch_date(day, word, year) ==
  LET named == {k \in 1..12 : dutch_months[k] = lower(word)}
      month == IF named = {} THEN 1 ELSE CHOOSE k \in named : TRUE
      leap == (year % 4 = 0 /\ year % 100 # 0) \/ year % 400 = 0
      days == IF month = 2 THEN (IF leap THEN 29 ELSE 28)
              ELSE IF month \in {4, 6, 9, 11} THEN 30 ELSE 31
  IN  IF year < 1 \/ day < 1 \/ day > days
      THEN [raised |-> TRUE, date |-> None]
      ELSE [raised |-> FALSE,
            date |-> ToStr(year) \o "-" \o zfill2(ToStr(month)) \o "-" \o zfill2(ToStr(day))]

\* The last position of the run of \w that starts at p; p - 1 when there is none.
RECURSIVE WordRunEnd(_, _)
WordRunEnd(s, p) ==
  IF /\ p <= Len(s)
     /\ \/ Ch(s, p) \in DOMAIN ToUpper \/ Ch(s, p) \in DOMAIN ToLower
        \/ IsDigit(Ch(s, p)) \/ Ch(s, p) = "_"
        \/ \E k \in 1..Len(AccentedLetters) : Ch(AccentedLetters, k) = Ch(s, p)
  THEN WordRunEnd(s, p + 1)
  ELSE p - 1

\* Datum\s+(\d{1,2}\s+\w+\s+\d{4}) at p: the three parts of group 1.
DatumAt(text, p) ==
  LET w1 == SpaceRunEnd(text, p + 5)
      d == DigitRunEnd(text, w1 + 1)
      w2 == SpaceRunEnd(text, d + 1)
      m == WordRunEnd(text, w2 + 1)
      w3 == SpaceRunEnd(text, m + 1)
      y == DigitRunEnd(text, w3 + 1)
  IN  IF /\ p + 4 <= Len(text) /\ SubSeq(text, p, p + 4) = "Datum"
         /\ w1 > p + 4 /\ d > w1 /\ d <= w1 + 2 /\ w2 > d /\ m > w2 /\ w3 > m /\ y >= w3 + 4
      THEN [matched |-> TRUE, day |-> SubSeq(text, w1 + 1, d), word |-> SubSeq(text, w2 + 1, m),
            year |-> SubSeq(text, w3 + 1, w3 + 4)]
      ELSE NoMatch

\* parse_invoice: result["date"] of a text, and whether parse_dutch_date raised
\* (then the except clause is reached before any product is extracted).
DateOfMatch(m) ==
  IF m.matched THEN parse_dutch_date(ToInt(m.day), m.word, ToInt(m.year))
  ELSE [raised |-> FALSE, date |-> None]

FirstMatchAt(text, starts) == IF starts = {} THEN NoMatch ELSE DatumAt(text, Min(starts))

invoice_date(text) ==
  DateOfMatch(FirstMatchAt(text, {p \in 1..Len(text) : DatumAt(text, p).matched}))

\* (\d{1,2})-(\d{1,2})-(\d{4}) at p, as f"{year}-{month.zfill(2)}-{day.zfill(2)}";
\* None when it does not match.
ReceiptDateAt(text, p) ==
  LET d == DigitRunEnd(text, p)
      m == DigitRunEnd(text, d + 2)
      y == DigitRunEnd(text, m + 2)
  IN  IF /\ d \in {p, p + 1} /\ d + 1 <= Len(text) /\ Ch(text, d + 1) = "-"
         /\ m \in {d + 2, d + 3} /\ m + 1 <= Len(text) /\ Ch(text, m + 1) = "-"
         /\ y >= m + 5
      THEN SubSeq(text, m + 2, m + 5) \o "-" \o zfill2(SubSeq(text, d + 2, m)) \o "-"
             \o zfill2(SubSeq(text, p, d))
      ELSE None

\* parse_receipt: receipt_data["date"], from the first place of the text where
\* the pattern matches (the time in front of the date is optional).
FirstDateAt(text, starts) == IF starts = {} THEN None ELSE ReceiptDateAt(text, Min(starts))

receipt_date(text) ==
  FirstDateAt(text, {p \in 1..Len(text) : ReceiptDateAt(text, p) # None})

----------------------------------------------------------------------------
(* database.py: the tables invoices and products, and parser.py            *)
(* import_invoice / receipt_parser.py import_receipt.  A row of invoices   *)
(* keeps the columns id, file_hash and invoice_date, a row of products the *)
(* columns the import writes.                                              *)

\* "SELECT id FROM invoices WHERE file_hash = ?"
invoice_exists(file_hash) ==
  \E r \in 1..Len(db.invoices) : db.invoices[r].file_hash = file_hash

\* cursor.lastrowid of an INSERT into a table with AUTOINCREMENT from which
\* the import deletes nothing
lastrowid == Len(db.invoices) + 1

\* save_invoice: the row inserted
invoice_row(file_hash, date) ==
  [id |-> lastrowid, file_hash |-> file_hash, invoice_date |-> date]

\* save_products: the row inserted for a product, the k-th row of the table;
\* product['name'] goes into both name columns and user_category is left NULL
product_row(id, invoice_id, product) ==
  [id |-> id, invoice_id |-> invoice_id, original_name |-> product.name,
   display_name |-> product.name, quantity |-> product.quantity, price |-> product.price,
   btw_percentage |-> product.btw, auto_category |-> product.category,
   user_category |-> None, auto_subcategory |-> product.subcategory]

save_products(invoice_id, list) ==
  db.products \o [k \in 1..Len(list) |->
                    product_row(Len(db.products) + k, invoice_id, list[k])]

\* init_database: default_categories, the names of the rows of the table
\* categories in the order of their ids
default_categories ==
  <<"Zuivel & Eieren", "Groente & Fruit", "Vlees & Vis", "Brood & Bakkerij",
    "Pasta, Rijst & Granen", "Dranken", "Sauzen & Specerijen", "Snacks & Zoetwaren",
    "Huishouden", "Persoonlijke Verzorging", "Verpakking & Statiegeld", "Bezorgkosten",
    "Abonnementen", "Overig">>

\* get_invoice_with_products: COALESCE(p.user_category, p.auto_category)
effective_category(row) ==
  IF row.user_category # None THEN row.user_category ELSE row.auto_category

\* "UPDATE products SET user_category = ? WHERE ...", for the rows chosen
SetUserCategory(rows, chosen, category) ==
  [k \in 1..Len(rows) |->
     IF k \in chosen THEN [rows[k] EXCEPT !.user_category = category] ELSE rows[k]]

\* "INSERT OR REPLACE INTO product_overrides", when the table categories has
\* a row with the name; the table has no UNIQUE column, so a row is added
WithOverride(overrides, product_name, ids) ==
  IF ids = {} THEN overrides
  ELSE Append(overrides, [product_name_pattern |-> product_name,
                          category_id |-> CHOOSE c \in ids : TRUE])

\* update_product_category on a product that exists: the tables after it and
\* what it returns
UpdateRows(name, chosen, category, apply_to_similar) ==
  [products |-> SetUserCategory(db.products, chosen, category),
   product_overrides |->
     IF apply_to_similar
     THEN WithOverride(db.product_overrides, name,
                       {c \in 1..Len(default_categories) : default_categories[c] = category})
     ELSE db.product_overrides,
   result |-> [success |-> TRUE, updated_count |-> Cardinality(chosen),
               product_name |-> name]]

update_product_category(product_id, category, apply_to_similar) ==
  IF product_id \notin 1..Len(db.products)
  THEN [products |-> db.products, product_overrides |-> db.product_overrides,
        result |-> [success |-> FALSE, error |-> "Product not found", updated_count |-> 0]]
  ELSE UpdateRows(db.products[product_id].original_name,
                  IF apply_to_similar
                  THEN {k \in 1..Len(db.products) :
                          db.products[k].original_name = db.products[product_id].original_name}
                  ELSE {product_id},
                  category, apply_to_similar)
----------------------------------------------------------------------------
(* Inputs: strings put together from a few pieces.                         *)

\* All concatenations of at most n of the pieces.
RECURSIVE Concats(_, _)
Concats(pieces, n) ==
  IF n = 0 THEN {""}
  ELSE LET shorter == Concats(pieces, n - 1)
       IN  shorter \cup {s \o p : s \in shorter, p \in pieces}

MaxPieces == 3

NamePieces == {"Ei", "x", " ", "\t", " BONUS", " bonus", "Bonus"}

NameInputs == Concats(NamePieces, MaxPieces)

\* The variables a specification does not use.
NoMutation ==
  [fn |-> None, category |-> None, keyword |-> None, success |-> FALSE, error |-> None]

NoEdits == keyword_edits = <<>> /\ mutation = NoMutation
NoCall == fn = "idle" /\ ret = None
NoDocument ==
  lines = <<>> /\ i = 0 /\ pos = 0 /\ seen_products = {} /\ products = <<>> /\ origin = <<>>

NotImporting ==
  [fn |-> None, file_hash |-> None, force |-> FALSE, pc |-> "idle", status |-> None,
   date |-> None, invoice_id |-> None, n |-> 0]

NotScanning == [product_lower |-> None, category |-> 0, keyword |-> 0, edits |-> 0]

\* The locals of a worker that has not called anything.
IdleWorker ==
  [fn |-> "idle", arg |-> "", ret |-> None, lines |-> <<>>, i |-> 0, pos |-> 0,
   seen_products |-> {}, products |-> <<>>, origin |-> <<>>, importing |-> NotImporting,
   scan |-> NotScanning]

NoImport ==
  /\ db = [invoices |-> <<>>, products |-> <<>>, product_overrides |-> <<>>,
           locked |-> FALSE]
  /\ importing = NotImporting
  /\ scan = NotScanning
  /\ parked = IdleWorker

----------------------------------------------------------------------------
(* SpecNormalize: normalize_product_name applied to a name, and then to    *)
(* its own result.                                                         *)

InitNormalize ==
  /\ NoEdits
  /\ arg \in NameInputs
  /\ NoCall
  /\ NoDocument
  /\ NoImport

CallNormalize ==
  /\ fn = "idle"
  /\ fn' = "normalize_product_name"
  /\ ret' = normalize_product_name(arg)
  /\ UNCHANGED <<keyword_edits, mutation, arg, lines, i, pos, seen_products, products, origin, db, importing,
                 scan, parked>>

\* normalize_product_name(normalize_product_name(x)): the second call takes the
\* result of the first.
CallNormalizeAgain ==
  /\ fn = "normalize_product_name"
  /\ fn' = "normalize_product_name again"
  /\ arg' = ret
  /\ ret' = normalize_product_name(ret)
  /\ UNCHANGED <<keyword_edits, mutation, lines, i, pos, seen_products, products, origin, db, importing,
                 scan, parked>>

NextNormalize == CallNormalize \/ CallNormalizeAgain

SpecNormalize == InitNormalize /\ [][NextNormalize]_vars

\* s ends, whatever the case of its letters, with a space and the word BONUS.
HasBonusSuffix(s) ==
  /\ Len(s) >= 6
  /\ Ch(s, Len(s) - 5) = " "
  /\ Ch(s, Len(s) - 4) \in {"B", "b"}
  /\ Ch(s, Len(s) - 3) \in {"O", "o"}
  /\ Ch(s, Len(s) - 2) \in {"N", "n"}
  /\ Ch(s, Len(s) - 1) \in {"U", "u"}
  /\ Ch(s, Len(s)) \in {"S", "s"}

\* t is s without the whitespace around it.
IsTrimOf(t, s) ==
  \E p, q \in 0..Len(s) :
    /\ p <= q
    /\ t = SubSeq(s, p + 1, q)
    /\ \A k \in 1..p : IsSpace(Ch(s, k))
    /\ \A k \in (q + 1)..Len(s) : IsSpace(Ch(s, k))
    /\ p < q => ~IsSpace(Ch(s, p + 1)) /\ ~IsSpace(Ch(s, q))

\* C1 as the specification states it: normalizing a normalized name changes nothing.
C1_IdempotentAlways ==
  fn = "normalize_product_name again" => ret = arg

\* C1, amended: normalizing a normalized name changes nothing, provided the
\* normalized name does not itself end with a further " BONUS" suffix (the
\* function removes one suffix per call).
C1_IdempotentSingleSuffix ==
  (fn = "normalize_product_name again" /\ ~HasBonusSuffix(arg)) => ret = arg

C1_Witness ==
  /\ fn = "normalize_product_name again"
  /\ ~HasBonusSuffix(arg)
  /\ arg = "Ei"
  /\ ret = arg

\* C2: the result is the trimmed input; when the trimmed input ends with " BONUS"
\* in any case, the result is the trimmed input without those six characters,
\* trimmed again; nothing else changes (a "Bonus" elsewhere stays).
C2_NormalizeContract ==
  fn = "normalize_product_name" =>
    \E t \in {SubSeq(arg, p + 1, q) : p, q \in 0..Len(arg)} :
      /\ IsTrimOf(t, arg)
      /\ IF HasBonusSuffix(t)
         THEN IsTrimOf(ret, SubSeq(t, 1, Len(t) - 6))
         ELSE ret = t

C2_Witness ==
  /\ fn = "normalize_product_name"
  /\ arg = " Bonus BONUS"
  /\ ret = "Bonus"

----------------------------------------------------------------------------
(* SpecClassify: categorize_product on a name, after some changes of the   *)
(* keyword table.                                                          *)

MaxEdits == 1

ClassifyWords == {"Chips", "Tortilla", "Water", "Azijn", "Schoonmaakazijn", "Qx"}

ClassifyNames ==
  {w \o s : w \in ClassifyWords, s \in {"", " BONUS"}}
    \cup {v \o " " \o w \o s : v \in ClassifyWords, w \in ClassifyWords, s \in {"", " BONUS"}}

EditCategories == {"Dranken", "Diepvries"}

EditKeywords == {" Chips ", "water", "qx", " ", "spa "}

InitClassify ==
  /\ arg \in ClassifyNames
  /\ NoCall
  /\ NoEdits
  /\ NoDocument
  /\ NoImport

AddKeyword ==
  /\ fn = "idle"
  /\ Len(keyword_edits) < MaxEdits
  /\ \E category \in EditCategories, keyword \in EditKeywords :
       Mutate("add_keyword_to_category", category, keyword,
              add_keyword_to_category(category, keyword))
  /\ UNCHANGED <<fn, arg, ret, lines, i, pos, seen_products, products, origin, db, importing,
                 scan, parked>>

RemoveKeyword ==
  /\ fn = "idle"
  /\ Len(keyword_edits) < MaxEdits
  /\ \E category \in EditCategories, keyword \in EditKeywords :
       Mutate("remove_keyword_from_category", category, keyword,
              remove_keyword_from_category(category, keyword))
  /\ UNCHANGED <<fn, arg, ret, lines, i, pos, seen_products, products, origin, db, importing,
                 scan, parked>>

CallCategorize ==
  /\ fn = "idle"
  /\ fn' = "categorize_product"
  /\ ret' = categorize_product(arg)
  /\ UNCHANGED <<keyword_edits, mutation, arg, lines, i, pos, seen_products, products, origin, db, importing,
                 scan, parked>>

NextClassify == AddKeyword \/ RemoveKeyword \/ CallCategorize

SpecClassify == InitClassify /\ [][NextClassify]_vars

\* Entry e of a table has a keyword that occurs in the text.
Matches(table, e, text) ==
  \E k \in 1..Len(table[e].keywords) :
    \E at \in 1..(Len(text) - Len(table[e].keywords[k]) + 1) :
      SubSeq(text, at, at + Len(table[e].keywords[k]) - 1) = table[e].keywords[k]

\* C3: the category is that of the first priority rule with a keyword in the
\* lower-cased normalized name; without such a rule, that of the first category
\* of CATEGORY_KEYWORDS with a keyword in it; without either, "Overig".
C3_CategorizeReference ==
  fn = "categorize_product" =>
    LET text == lower(normalize_product_name(arg))
        rules == {r \in 1..Len(priority_rules) : Matches(priority_rules, r, text)}
        entries == {e \in 1..Len(CATEGORY_KEYWORDS) : Matches(CATEGORY_KEYWORDS, e, text)}
    IN  /\ \A r \in rules :
             (\A q \in rules : r <= q) => ret = priority_rules[r].category
        /\ rules = {} =>
             \A e \in entries :
               (\A d \in entries : e <= d) => ret = CATEGORY_KEYWORDS[e].category
        /\ (rules = {} /\ entries = {}) => ret = "Overig"

\* "chips" was added to Dranken, which precedes Snacks & Zoetwaren in the table,
\* and "tortilla" is a keyword of Brood & Bakkerij: the priority rule still wins.
C3_Witness ==
  /\ fn = "categorize_product"
  /\ arg = "Chips Tortilla BONUS"
  /\ keyword_edits = <<[op |-> "append", category |-> "Dranken", keyword |-> "chips"]>>
  /\ ret = "Snacks & Zoetwaren"


\* A step that calls add_keyword_to_category or remove_keyword_from_category.
MutationCalled == fn = "idle" /\ fn' = "idle"

\* The table, before the call, has the category, and has the lower-cased
\* trimmed keyword in the list of the category.
CategoryExists(category) ==
  \E e \in 1..Len(CATEGORY_KEYWORDS) : CATEGORY_KEYWORDS[e].category = category

KeywordListed(category, keyword) ==
  \E e \in 1..Len(CATEGORY_KEYWORDS) :
    /\ CATEGORY_KEYWORDS[e].category = category
    /\ \E k \in 1..Len(CATEGORY_KEYWORDS[e].keywords) :
         CATEGORY_KEYWORDS[e].keywords[k] = strip(lower(keyword))

FailsWith(m, words) == ~m.success /\ m.error # None /\ Contains(m.error, words)

\* What the two functions do in the cases without a blank keyword, and the
\* table after a call that fails.
ValidatesLocally(m) ==
  /\ (m.fn = "add_keyword_to_category" /\ CategoryExists(m.category)
        /\ KeywordListed(m.category, m.keyword))
       => FailsWith(m, "already exists")
  /\ (m.fn = "remove_keyword_from_category"
        /\ (~CategoryExists(m.category) \/ ~KeywordListed(m.category, m.keyword)))
       => FailsWith(m, "not found")
  /\ ~m.success => CATEGORY_KEYWORDS' = CATEGORY_KEYWORDS

\* C18 as stated: add_keyword_to_category fails with a not-found error whenever
\* the category does not exist, and with a conflict error when the keyword is
\* listed; remove_keyword_from_category fails with a not-found error when the
\* category or the keyword does not exist; a failing call leaves the table as
\* it was.
C18_NotFoundWheneverNoCategory ==
  [][MutationCalled =>
       /\ ValidatesLocally(mutation')
       /\ (mutation'.fn = "add_keyword_to_category" /\ ~CategoryExists(mutation'.category))
            => FailsWith(mutation', "not found")]_vars

\* C18: as above, but add_keyword_to_category gives the not-found error for a
\* category that does not exist only when the trimmed keyword is not empty; a
\* blank keyword fails first, with "Keyword cannot be empty", and leaves the
\* table as it was too.
C18_NotFoundUnlessBlankKeyword ==
  [][MutationCalled =>
       /\ ValidatesLocally(mutation')
       /\ (mutation'.fn = "add_keyword_to_category" /\ ~CategoryExists(mutation'.category))
            => IF strip(mutation'.keyword) = ""
               THEN FailsWith(mutation', "Keyword cannot be empty")
               ELSE FailsWith(mutation', "not found")]_vars

C18_Witness ==
  /\ keyword_edits = <<>>
  /\ mutation.fn = "add_keyword_to_category"
  /\ mutation.category = "Dranken"
  /\ mutation.keyword = "water"
  /\ ~mutation.success
  /\ mutation.error = "Keyword 'water' already exists in Dranken"

\* The keyword as it was passed is an element of the list of the category.
IsElement(table, category, keyword) ==
  \E e \in 1..Len(table) :
    /\ table[e].category = category
    /\ \E k \in 1..Len(table[e].keywords) : table[e].keywords[k] = keyword

RemoveCalled == MutationCalled /\ mutation'.fn = "remove_keyword_from_category"

\* C24: remove_keyword_from_category(c, k) succeeds whenever k is an element of
\* the list of c, and k is then no element of it any more; it reports
\* not-found only when c has no list with the element k.
C24_RemovesEveryElement ==
  [][RemoveCalled =>
       /\ IsElement(CATEGORY_KEYWORDS, mutation'.category, mutation'.keyword)
            => /\ mutation'.success
               /\ ~IsElement(CATEGORY_KEYWORDS', mutation'.category, mutation'.keyword)
       /\ FailsWith(mutation', "not found")
            => ~IsElement(CATEGORY_KEYWORDS, mutation'.category, mutation'.keyword)]_vars

Range(list) == {list[k] : k \in 1..Len(list)}

\* No list of the table has the empty string or an element twice.
IsClean(table) ==
  \A e \in 1..Len(table) :
    /\ "" \notin Range(table[e].keywords)
    /\ Cardinality(Range(table[e].keywords)) = Len(table[e].keywords)

CategoriesOf(table) == [e \in 1..Len(table) |-> table[e].category]

\* The table after differs from the table before in the list of the category
\* only, which has the keyword appended.
IsAppended(before, after, category, keyword) ==
  /\ Len(after) = Len(before)
  /\ \A e \in 1..Len(before) :
       after[e].keywords = IF before[e].category = category
                           THEN Append(before[e].keywords, keyword)
                           ELSE before[e].keywords

\* C25: whatever calls of add_keyword_to_category and
\* remove_keyword_from_category were made, no list of the table has the empty
\* string or a keyword twice and the categories are those of the loaded table;
\* a successful add appends the lower-cased trimmed keyword to the list of the
\* category named and changes no other list.
C25_TableStaysClean ==
  /\ [](IsClean(CATEGORY_KEYWORDS)
         /\ CategoriesOf(CATEGORY_KEYWORDS) = CategoriesOf(InitialCategoryKeywords))
  /\ [][(MutationCalled /\ mutation'.fn = "add_keyword_to_category" /\ mutation'.success)
          => IsAppended(CATEGORY_KEYWORDS, CATEGORY_KEYWORDS', mutation'.category,
                        strip(lower(mutation'.keyword)))]_vars

C25_Witness ==
  /\ mutation.fn = "add_keyword_to_category"
  /\ mutation.category = "Dranken"
  /\ mutation.keyword = " Chips "
  /\ mutation.success
  /\ keyword_edits = <<[op |-> "append", category |-> "Dranken", keyword |-> "chips"]>>
  /\ IsElement(CATEGORY_KEYWORDS, "Dranken", "chips")
----------------------------------------------------------------------------
(* SpecExpand: expand_abbreviation on a token.                             *)

ExpandHeads == {"AH HV MELK", "ah hv melk", "Leffe Blond", "LEFFE", "Leffe", "AH HV", "Qx", ""}

ExpandTails == {"", "X", " 6x", " BLOND"}

ExpandInputs ==
  {a \o h \o t \o b : a \in {"", " ", "\t"}, h \in ExpandHeads, t \in ExpandTails,
                      b \in {"", " "}}

InitExpand ==
  /\ arg \in ExpandInputs
  /\ NoCall
  /\ NoEdits
  /\ NoDocument
  /\ NoImport

CallExpand ==
  /\ fn = "idle"
  /\ fn' = "expand_abbreviation"
  /\ ret' = expand_abbreviation(arg)
  /\ UNCHANGED <<keyword_edits, mutation, arg, lines, i, pos, seen_products, products, origin, db, importing,
                 scan, parked>>

NextExpand == CallExpand

SpecExpand == InitExpand /\ [][NextExpand]_vars

\* The token without the whitespace around it.
TrimOf(s) == CHOOSE t \in {SubSeq(s, p + 1, q) : p, q \in 0..Len(s)} : IsTrimOf(t, s)

\* The abbreviation begins the token, letter case of the token aside.
AbbrevBegins(abbrev, token) ==
  /\ Len(abbrev) <= Len(token)
  /\ \A k \in 1..Len(abbrev) :
       \/ Ch(token, k) = Ch(abbrev, k)
       \/ \E n \in 1..Len(LowerLetters) :
            Ch(token, k) = Ch(LowerLetters, n) /\ Ch(abbrev, k) = Ch(UpperLetters, n)

\* C6: a trimmed token that is, in upper case, a key of ABBREVIATION_MAP gives the
\* mapped name; otherwise the first key in declaration order that begins the
\* upper-cased token gives the mapped name followed by the rest of the token in
\* its own case ("LEFFE BLOND" is declared before "LEFFE", so it is the one used).
C6_ExpandContract ==
  fn = "expand_abbreviation" =>
    LET token == TrimOf(arg)
        keys == 1..Len(ABBREVIATION_MAP)
        equal == {e \in keys : AbbrevBegins(ABBREVIATION_MAP[e].abbrev, token)
                                 /\ Len(ABBREVIATION_MAP[e].abbrev) = Len(token)}
        begins == {e \in keys : AbbrevBegins(ABBREVIATION_MAP[e].abbrev, token)}
    IN  /\ \A e \in equal : ret = ABBREVIATION_MAP[e].full
        /\ equal = {} =>
             \A e \in begins :
               (\A d \in begins : e <= d) =>
                 ret = ABBREVIATION_MAP[e].full
                         \o SubSeq(token, Len(ABBREVIATION_MAP[e].abbrev) + 1, Len(token))
        /\ AbbrevBegins("LEFFE BLOND", token) =>
             AbbrevBegins("Leffe Blond bier", ret)

C6_Witness ==
  /\ fn = "expand_abbreviation"
  /\ arg = "Leffe Blond 6x"
  /\ ret = "Leffe Blond bier 6x"

\* C7 as the specification states it: without a matching key the returned
\* string is the argument itself.
C7_NoMatchReturnsArgument ==
  (/\ fn = "expand_abbreviation"
   /\ \A e \in 1..Len(ABBREVIATION_MAP) :
        ~AbbrevBegins(ABBREVIATION_MAP[e].abbrev, TrimOf(arg))) => ret = arg

\* C7, amended: without a matching key the returned string is the argument
\* without the whitespace around it (the argument itself when it has none).
C7_NoMatchReturnsTrimmed ==
  (/\ fn = "expand_abbreviation"
   /\ \A e \in 1..Len(ABBREVIATION_MAP) :
        ~AbbrevBegins(ABBREVIATION_MAP[e].abbrev, TrimOf(arg))) => IsTrimOf(ret, arg)

C7_Witness ==
  /\ fn = "expand_abbreviation"
  /\ arg = " Qx 6x "
  /\ ret = "Qx 6x"

----------------------------------------------------------------------------
(* SpecLine: parse_product_line on one line of a receipt.                  *)

LineHeads == {"0.962KG", "0,5kg", "1.2346KG", "2", "12", "KG"}

LineNames == {"TROSTOMAAT", "LEFFE BLOND", "BIER B", "QX", "1,00"}

LineTails == {" 1,11 2,22", " 1,29", " 1,11 2,22 B", " 1,29 B", "", " 1,1"}

LineInputs == {h \o " " \o n \o t : h \in LineHeads, n \in LineNames, t \in LineTails}

InitLine ==
  /\ arg \in LineInputs
  /\ NoCall
  /\ NoEdits
  /\ NoDocument
  /\ NoImport

CallParseLine ==
  /\ fn = "idle"
  /\ fn' = "parse_product_line"
  /\ ret' = parse_product_line(arg)
  /\ UNCHANGED <<keyword_edits, mutation, arg, lines, i, pos, seen_products, products, origin, db, importing,
                 scan, parked>>

NextLine == CallParseLine

SpecLine == InitLine /\ [][NextLine]_vars

\* The integer a line begins with.
LeadingInteger(line) == ToInt(SubSeq(line, 1, DigitRunEnd(line, 1)))

\* The name of a line with a count: trimmed, without a closing " B", expanded
\* and normalized.
CountedName(raw) ==
  normalize_product_name(expand_abbreviation(StripTrailingB(strip(raw))))

PlainFields == {"name", "quantity", "price", "btw", "category", "subcategory"}

\* C9: a parsed line gives one item or none, from the first of the weighed,
\* multi-unit and single-unit forms that matches: a multi-unit line has its
\* leading integer as quantity and its last amount as price, a line of the
\* single-unit form alone has its one amount as price, a line of no form gives
\* no item.
C9_FirstFormDecides ==
  fn = "parse_product_line" =>
    LET w == weight_match(arg)
        m == multi_match(arg)
        s == single_match(arg)
    IN  /\ w.matched => "weight_kg" \in DOMAIN ret
        /\ m.matched =>
             /\ DOMAIN ret = PlainFields
             /\ ret.quantity = LeadingInteger(arg)
             /\ ret.price = ToFloat(m.group4)
             /\ ret.name = CountedName(m.group2)
        /\ (s.matched /\ ~m.matched /\ ~w.matched) =>
             /\ DOMAIN ret = PlainFields
             /\ ret.quantity = LeadingInteger(arg)
             /\ ret.price = ToFloat(s.group3)
             /\ ret.name = CountedName(s.group2)
        /\ ~(w.matched \/ m.matched \/ s.matched) => ret = NoProduct

C9_Witness ==
  /\ fn = "parse_product_line"
  /\ arg = "2 LEFFE BLOND 1,11 2,22 B"
  /\ ret.name = "Leffe Blond bier"
  /\ ret.quantity = 2
  /\ ret.price = [mantissa |-> 222, places |-> 2]
  /\ ret.btw = "21%"

\* x * 10^n for a decimal x of at most n places
Scaled(x, n) == x.mantissa * Pow10(n - x.places)

\* The text has digits, a point and exactly three digits, and is the weight to
\* within half a thousandth.
IsWeightWith3Decimals(text, weight) ==
  LET n == Max({weight.places, 3}) + 1
      d == Scaled(ToFloat(text), n) - Scaled(weight, n)
  IN  /\ Len(text) >= 5
      /\ \A k \in 1..Len(text) :
           IF k = Len(text) - 3 THEN Ch(text, k) = "." ELSE IsDigit(Ch(text, k))
      /\ -Pow10(n - 3) <= 2 * d
      /\ 2 * d <= Pow10(n - 3)

\* C10: a line of the weighed form is emitted with quantity 1, the weight it
\* states, its last amount as price, tax rate "9%", the expanded and normalized
\* name followed by " (<weight with three decimals>kg)", and the category of
\* the name without that suffix.
C10_WeighedItem ==
  (fn = "parse_product_line" /\ weight_match(arg).matched) =>
    LET m == weight_match(arg)
        name == normalize_product_name(expand_abbreviation(strip(m.group2)))
        suffix == SubSeq(ret.name, Len(name) + 1, Len(ret.name))
    IN  /\ ret.quantity = 1
        /\ ret.weight_kg = ToFloat(m.group1)
        /\ ret.price = ToFloat(m.group4)
        /\ ret.btw = "9%"
        /\ Len(ret.name) >= Len(name) + 10
        /\ SubSeq(ret.name, 1, Len(name)) = name
        /\ SubSeq(suffix, 1, 2) = " ("
        /\ SubSeq(suffix, Len(suffix) - 2, Len(suffix)) = "kg)"
        /\ IsWeightWith3Decimals(SubSeq(suffix, 3, Len(suffix) - 3), ret.weight_kg)
        /\ ret.category = categorize_product(name)

C10_Witness ==
  /\ fn = "parse_product_line"
  /\ arg = "1.2346KG BIER B 1,11 2,22 B"
  /\ ret.name = "BIER B (1.235kg)"
  /\ ret.weight_kg = [mantissa |-> 12346, places |-> 4]
  /\ ret.price = [mantissa |-> 222, places |-> 2]
  /\ ret.btw = "9%"
  /\ ret.category = "Dranken"

\* The item of a line with a count: a product without a weight.
IsCountedItem(product) == product # NoProduct /\ "weight_kg" \notin DOMAIN product

HasTaxKeyword(name) ==
  \E k \in 1..Len(btw_21_keywords) : Contains(lower(name), btw_21_keywords[k])

\* C11: the item of a multi-unit or single-unit line has tax rate "21%" exactly
\* when its lower-cased display name (closing " B" removed, expanded and
\* normalized) contains one of the 21% keywords, and "9%" otherwise; no item of
\* a receipt line has tax rate "Geen".
C11_TaxRateFromName ==
  fn = "parse_product_line" =>
    /\ ret # NoProduct => ret.btw \in {"9%", "21%"}
    /\ IsCountedItem(ret) =>
         /\ ret.name = CountedName(IF multi_match(arg).matched THEN multi_match(arg).group2
                                   ELSE single_match(arg).group2)
         /\ ret.btw = (IF HasTaxKeyword(ret.name) THEN "21%" ELSE "9%")

C11_Witness ==
  /\ fn = "parse_product_line"
  /\ arg = "2 BIER B 1,29"
  /\ ret.name = "BIER"
  /\ ret.btw = "21%"

----------------------------------------------------------------------------
(* SpecExtract: the two extractors on a document of a few lines.           *)

MaxLines == 2

ReceiptLineTexts ==
  {"", "SPAARACTIES AIRMILES 12", "Subtotaal 3,58", "+STATIEGELD 0,30",
   "0.962KG TROSTOMAAT 2,38 2,29", " 2 LEFFE BLOND 1,11 2,22 B", "1 AH KR MUESLI 2,99",
   "1 QX ZZ 1,00", "Albert Heijn"}

InvoiceLineTexts ==
  {"AH Halfvolle melk 2 9% 1,00 0,09 1,09", "AH Halfvolle melk BONUS 2 9% 1,00 0,09 1,09",
   "Room ei BONUS 1 9% 2,00 0,18 2,18", "Statiegeld 1 Geen 0,25 0,00 0,25",
   "Qxz 1 21% 1,00 0,21 1,2,1", "Qxz 1 21% 1,00 0,21 1,21", "Melk",
   "AH Halfvolle melk 0 Geen 1,09 0,00 1,09", "Ab 1 9% 1,00 0,09 1,09"}

\* The documents of n lines taken from a set of line texts.
RECURSIVE DocumentsOf(_, _)
DocumentsOf(texts, n) ==
  IF n = 1 THEN texts
  ELSE {d \o "\n" \o t : d \in DocumentsOf(texts, n - 1), t \in texts}

Documents ==
  UNION {DocumentsOf(ReceiptLineTexts, n) \cup DocumentsOf(InvoiceLineTexts, n) : n \in 1..MaxLines}

InitExtract ==
  /\ arg \in Documents
  /\ NoCall
  /\ NoEdits
  /\ NoDocument
  /\ NoImport

\* extract_products_from_receipt(text): "products = []", "lines = text.split('\n')"
StartReceipt ==
  /\ fn = "idle"
  /\ fn' = "extract_products_from_receipt"
  /\ products' = <<>>
  /\ origin' = <<>>
  /\ lines' = split(arg)
  /\ i' = 1
  /\ UNCHANGED <<keyword_edits, mutation, arg, ret, pos, seen_products, db, importing,
                 scan, parked>>

InReceiptLoop == fn = "extract_products_from_receipt" /\ i <= Len(lines)

\* "continue" for an empty line or a header line
ReceiptSkip ==
  /\ InReceiptLoop
  /\ IsBlankOrHeader(strip(lines[i]))
  /\ i' = i + 1
  /\ UNCHANGED <<keyword_edits, mutation, fn, arg, ret, lines, pos, seen_products, products, origin, db, importing,
                 scan, parked>>

\* "break" at a stop marker, and the return that follows the loop
ReceiptStop ==
  /\ InReceiptLoop
  /\ LET line == strip(lines[i])
     IN  ~IsBlankOrHeader(line) /\ should_stop(line)
  /\ fn' = "extract_products_from_receipt returned"
  /\ ret' = products
  /\ UNCHANGED <<keyword_edits, mutation, arg, lines, i, pos, seen_products, products, origin, db, importing,
                 scan, parked>>

\* "continue" for a deposit line
ReceiptDeposit ==
  /\ InReceiptLoop
  /\ LET line == strip(lines[i])
     IN  ~IsBlankOrHeader(line) /\ ~should_stop(line) /\ IsDeposit(line)
  /\ i' = i + 1
  /\ UNCHANGED <<keyword_edits, mutation, fn, arg, ret, lines, pos, seen_products, products, origin, db, importing,
                 scan, parked>>

\* "if product: products.append(product)"
AppendIfProduct(product) ==
  IF product # NoProduct
  THEN products' = Append(products, product) /\ origin' = Append(origin, i)
  ELSE UNCHANGED <<products, origin>>

\* Mutant: the parsed line is kept as a keyword of a category.
ReceiptParse_learning ==
  /\ InReceiptLoop
  /\ LET line == strip(lines[i])
     IN  /\ ~IsBlankOrHeader(line) /\ ~should_stop(line) /\ ~IsDeposit(line)
         /\ AppendIfProduct(parse_product_line(line))
         /\ keyword_edits' = Append(keyword_edits, [op |-> "append", category |-> "Dranken",
                                                     keyword |-> lower(line)])
  /\ i' = i + 1
  /\ UNCHANGED <<mutation, fn, arg, ret, lines, pos, seen_products, db, importing, scan, parked>>

\* "product = parse_product_line(line)", "if product: products.append(product)"
ReceiptParse ==
  /\ InReceiptLoop
  /\ LET line == strip(lines[i])
     IN  /\ ~IsBlankOrHeader(line) /\ ~should_stop(line) /\ ~IsDeposit(line)
         /\ AppendIfProduct(parse_product_line(line))
  /\ i' = i + 1
  /\ UNCHANGED <<keyword_edits, mutation, fn, arg, ret, lines, pos, seen_products, db, importing,
                 scan, parked>>

\* "return products" after the last line
ReceiptReturn ==
  /\ fn = "extract_products_from_receipt"
  /\ i > Len(lines)
  /\ fn' = "extract_products_from_receipt returned"
  /\ ret' = products
  /\ UNCHANGED <<keyword_edits, mutation, arg, lines, i, pos, seen_products, products, origin, db, importing,
                 scan, parked>>

\* extract_products_from_text(text): "products = []", "seen_products = set()"
StartInvoice ==
  /\ fn = "idle"
  /\ fn' = "extract_products_from_text"
  /\ products' = <<>>
  /\ origin' = <<>>
  /\ seen_products' = {}
  /\ pos' = 1
  /\ UNCHANGED <<keyword_edits, mutation, arg, ret, lines, i, db, importing, scan, parked>>

\* The loop body for a match, up to the first "continue": the conversions, which
\* may raise, then the names to skip.
Raises(match) == match.matched /\ ~IsFloatText(match.columns.group6)

Skips(match) ==
  match.matched /\ IsFloatText(match.columns.group6) /\ IsSkipped(strip(match.group1))

Passes(match) ==
  match.matched /\ IsFloatText(match.columns.group6) /\ ~IsSkipped(strip(match.group1))

KeyOf(product) == product_key(product.name, product.quantity, product.price)

\* finditer goes on behind the match
Resume(match) == pos' = match.columns.end + 1

\* Mutant: the item is put in front of the list.
AppendProduct_in_front(product, line) ==
  /\ seen_products' = seen_products \cup {KeyOf(product)}
  /\ products' = <<product>> \o products
  /\ origin' = <<line>> \o origin

AppendProduct(product, line) ==
  /\ seen_products' = seen_products \cup {KeyOf(product)}
  /\ products' = Append(products, product)
  /\ origin' = Append(origin, line)

\* float(...) of the last column raises ValueError, which ends the call
InvoiceRaise ==
  /\ fn = "extract_products_from_text"
  /\ Raises(NextMatch(arg, pos))
  /\ fn' = "extract_products_from_text raised"
  /\ ret' = "ValueError"
  /\ UNCHANGED <<keyword_edits, mutation, arg, lines, i, pos, seen_products, products, origin, db, importing,
                 scan, parked>>

SkipAndResume(match) == Skips(match) /\ Resume(match)

\* "continue" for a name that is a skip pattern, too short or only digits
InvoiceSkip ==
  /\ fn = "extract_products_from_text"
  /\ SkipAndResume(NextMatch(arg, pos))
  /\ UNCHANGED <<keyword_edits, mutation, fn, arg, ret, lines, i, seen_products, products, origin, db, importing,
                 scan, parked>>

DuplicateAndResume(match) ==
  /\ Passes(match)
  /\ KeyOf(invoice_product(match)) \in seen_products
  /\ Resume(match)

\* "if product_key in seen_products: continue"
InvoiceDuplicate ==
  /\ fn = "extract_products_from_text"
  /\ DuplicateAndResume(NextMatch(arg, pos))
  /\ UNCHANGED <<keyword_edits, mutation, fn, arg, ret, lines, i, seen_products, products, origin, db, importing,
                 scan, parked>>

EmitAndResume(match, product) ==
  /\ Passes(match)
  /\ KeyOf(product) \notin seen_products
  /\ AppendProduct(product, LineOf(arg, match.start))
  /\ Resume(match)

\* "seen_products.add(product_key)", "products.append({...})"
InvoiceEmit ==
  /\ fn = "extract_products_from_text"
  /\ EmitAndResume(NextMatch(arg, pos), invoice_product(NextMatch(arg, pos)))
  /\ UNCHANGED <<keyword_edits, mutation, fn, arg, ret, lines, i, db, importing, scan, parked>>

\* "return products" when finditer has no further match
InvoiceReturn ==
  /\ fn = "extract_products_from_text"
  /\ ~NextMatch(arg, pos).matched
  /\ fn' = "extract_products_from_text returned"
  /\ ret' = products
  /\ UNCHANGED <<keyword_edits, mutation, arg, lines, i, pos, seen_products, products, origin, db, importing,
                 scan, parked>>

NextExtract ==
  \/ StartReceipt
  \/ ReceiptSkip
  \/ ReceiptStop
  \/ ReceiptDeposit
  \/ ReceiptParse
  \/ ReceiptReturn
  \/ StartInvoice
  \/ InvoiceRaise
  \/ InvoiceSkip
  \/ InvoiceDuplicate
  \/ InvoiceEmit
  \/ InvoiceReturn

SpecExtract == InitExtract /\ [][NextExtract]_vars

\* A step appends an item to products; the item.
Emitted == products' # products

LastItem == products'[Len(products')]

IsInvoiceItem(p) == "original_name_raw" \in DOMAIN p

\* The name an item was classified with: for the invoice extractor the raw name,
\* for the receipt extractor the name of the item without its weight suffix.
ClassifiedName(p) ==
  IF IsInvoiceItem(p) THEN p.original_name_raw
  ELSE IF "weight_kg" \in DOMAIN p
  THEN SubSeq(p.name, 1, Max({k \in 1..(Len(p.name) - 1) : SubSeq(p.name, k, k + 1) = " ("}) - 1)
  ELSE p.name

CategoryNames ==
  {CATEGORY_KEYWORDS[e].category : e \in 1..Len(CATEGORY_KEYWORDS)}
    \cup {priority_rules[r].category : r \in 1..Len(priority_rules)}
    \cup {"Overig"}

SomeKeywordMatches(text) ==
  \/ \E r \in 1..Len(priority_rules) : Matches(priority_rules, r, text)
  \/ \E e \in 1..Len(CATEGORY_KEYWORDS) : Matches(CATEGORY_KEYWORDS, e, text)

\* The subcategories declared for a category (none for a category without entry).
DeclaredSubcategories(category) ==
  UNION {{SUBCATEGORY_KEYWORDS[e].subcategories[j].subcategory :
            j \in 1..Len(SUBCATEGORY_KEYWORDS[e].subcategories)} :
         e \in {d \in 1..Len(SUBCATEGORY_KEYWORDS) : SUBCATEGORY_KEYWORDS[d].category = category}}

HasSubcategories(category) ==
  \E e \in 1..Len(SUBCATEGORY_KEYWORDS) : SUBCATEGORY_KEYWORDS[e].category = category

CategoryRulesHold(p) ==
  /\ p.category # None
  /\ p.category \in CategoryNames
  /\ (p.category = "Overig") <=>
       ~SomeKeywordMatches(lower(normalize_product_name(ClassifiedName(p))))
  /\ IF HasSubcategories(p.category)
     THEN p.subcategory = None \/ p.subcategory \in DeclaredSubcategories(p.category)
     ELSE p.subcategory = None

\* C4: every item either extractor emits has a category that is not null and
\* is a category of the keyword table, of a priority rule, or "Overig", and
\* is "Overig" exactly when no priority or general keyword matches; its
\* subcategory is null when the category has no entry in SUBCATEGORY_KEYWORDS
\* and otherwise null or a subcategory declared for that category.
C4_EmittedCategories == [][Emitted => CategoryRulesHold(LastItem)]_vars

C4_Witness ==
  /\ fn = "extract_products_from_receipt returned"
  /\ arg = "1 AH KR MUESLI 2,99\n1 QX ZZ 1,00"
  /\ Len(ret) = 2
  /\ ret[1].category = "Pasta, Rijst & Granen"
  /\ ret[1].subcategory = None
  /\ ret[2].category = "Overig"
  /\ ret[2].subcategory = None

\* The first subcategory, in declared order, of the category with a keyword
\* that occurs in the text; null without one.
FirstSubcategoryOf(category, text) ==
  IF ~HasSubcategories(category) THEN None
  ELSE LET entry == CHOOSE e \in 1..Len(SUBCATEGORY_KEYWORDS) :
                      SUBCATEGORY_KEYWORDS[e].category = category
           subcats == SUBCATEGORY_KEYWORDS[entry].subcategories
           hits == {j \in 1..Len(subcats) : Matches(subcats, j, text)}
       IN  IF hits = {} THEN None
           ELSE subcats[CHOOSE j \in hits : \A h \in hits : j <= h].subcategory

\* The name as the line of the receipt has it.
RawReceiptName(line) ==
  IF weight_match(line).matched THEN strip(weight_match(line).group2)
  ELSE IF multi_match(line).matched THEN strip(multi_match(line).group2)
  ELSE strip(single_match(line).group2)

\* The raw name of the source line of the item this step appends.
RawNameOfSource ==
  IF IsInvoiceItem(LastItem) THEN LastItem.original_name_raw
  ELSE RawReceiptName(strip(lines[i]))

\* C5 as stated: for both extractors the subcategory of an emitted item is the
\* first subcategory of its category with a keyword in the lower-cased raw name
\* of the source line, or null.
C5_SubcategoryFromRawName ==
  [][Emitted =>
       LastItem.subcategory = FirstSubcategoryOf(LastItem.category, lower(RawNameOfSource))]_vars

\* C5: the subcategory of an emitted item is the first subcategory of its
\* category with a keyword in the lower-cased name it was classified with, or
\* null: the raw name of the line for the invoice extractor, the expanded and
\* normalized name for the receipt extractor.
C5_SubcategoryFromClassifiedName ==
  [][Emitted =>
       LastItem.subcategory
         = FirstSubcategoryOf(LastItem.category, lower(ClassifiedName(LastItem)))]_vars

C5_Witness ==
  /\ fn = "extract_products_from_receipt returned"
  /\ arg = "0.962KG TROSTOMAAT 2,38 2,29"
  /\ Len(ret) = 1
  /\ ret[1].name = "AH Trostomaten (0.962kg)"
  /\ ret[1].category = "Groente & Fruit"
  /\ ret[1].subcategory = None
  /\ FirstSubcategoryOf("Groente & Fruit", "trostomaat") = "Groente"

HeaderWords == {"OMSCHRIJVING", "BONUSKAART", "AIRMILES"}

HasStopMarker(line) ==
  \E m \in 1..Len(stop_markers) : Contains(upper(line), stop_markers[m])

IsPassedOver(line) == line = "" \/ \E w \in HeaderWords : Contains(line, w)

\* C8 as stated: no item comes from a line after the first line whose
\* upper-cased text contains a stop marker, whatever else that line contains.
C8_NothingAfterMarkerLine ==
  \A n \in 1..Len(lines) : \A k \in 1..Len(products) :
    HasStopMarker(strip(lines[n])) => origin[k] <= n

\* C8: no item comes from a line after the first line whose upper-cased text
\* contains a stop marker and that is not passed over as a header line.
C8_NothingAfterStopLine ==
  \A n \in 1..Len(lines) : \A k \in 1..Len(products) :
    (HasStopMarker(strip(lines[n])) /\ ~IsPassedOver(strip(lines[n]))) => origin[k] <= n

C8_Witness ==
  /\ fn = "extract_products_from_receipt returned"
  /\ arg = "Subtotaal 3,58\n1 QX ZZ 1,00"
  /\ i = 1
  /\ ret = <<>>

----------------------------------------------------------------------------
(* The items of a call of extract_products_from_text.                      *)

\* The triple an item is known by.
TripleOf(p) == <<p.name, p.quantity, p.price>>

EmittedTriples == {TripleOf(products[k]) : k \in 1..Len(products)}

\* The triple of a match: its normalized name, its count and its last amount.
MatchTriple(match) ==
  <<normalize_product_name(strip(match.group1)), ToInt(match.columns.group2),
    ToFloatColumn(match.columns.group6)>>

\* A surviving match is emitted, with its triple, exactly when no item emitted
\* before has that triple.
FirstOfTripleEmitted(match) ==
  Passes(match) =>
    /\ Emitted <=> MatchTriple(match) \notin EmittedTriples
    /\ Emitted => TripleOf(LastItem) = MatchTriple(match)

NoTripleTwice(items) ==
  \A a, b \in 1..Len(items) : TripleOf(items[a]) = TripleOf(items[b]) => a = b

WordStarts(s) ==
  {k \in 1..Len(s) : ~IsSpace(Ch(s, k)) /\ (k = 1 \/ IsSpace(Ch(s, k - 1)))}

WordEnds(s) ==
  {k \in 1..Len(s) : ~IsSpace(Ch(s, k)) /\ (k = Len(s) \/ IsSpace(Ch(s, k + 1)))}

NthFromEnd(S, n) == CHOOSE k \in S : Cardinality({j \in S : j >= k}) = n

WordFromEnd(s, n) == SubSeq(s, NthFromEnd(WordStarts(s), n), NthFromEnd(WordEnds(s), n))

\* The item has the fields of the text read so far, which ends with the name
\* and the five columns of its line: count, tax rate, amount without tax, tax
\* and amount with tax.
FieldsOfColumns(p, read) ==
  /\ Cardinality(WordStarts(read)) >= 6
  /\ p.price = ToFloatColumn(WordFromEnd(read, 1))
  /\ p.btw = WordFromEnd(read, 4)
  /\ p.btw \in {"9%", "21%", "Geen"}
  /\ p.quantity = ToInt(WordFromEnd(read, 5))
  /\ endswith(strip(SubSeq(read, 1, NthFromEnd(WordStarts(read), 5) - 1)), p.original_name_raw)
  /\ p.original_name_raw # ""
  /\ p.name = normalize_product_name(p.original_name_raw)

\* C13: an item the invoice extractor emits has the amount with tax (the last
\* column of its line) as price, the captured count as quantity, the captured
\* token "9%", "21%" or "Geen" as tax rate, the raw name of the line as
\* original name and its normalized form as display name.
C13_InvoiceFields ==
  [][(fn = "extract_products_from_text" /\ Emitted) =>
       FieldsOfColumns(LastItem, SubSeq(arg, 1, pos' - 1))]_vars

C13_Witness ==
  /\ fn = "extract_products_from_text returned"
  /\ arg = "AH Halfvolle melk BONUS 2 9% 1,00 0,09 1,09"
  /\ Len(ret) = 1
  /\ ret[1].name = "AH Halfvolle melk"
  /\ ret[1].original_name_raw = "AH Halfvolle melk BONUS"
  /\ ret[1].quantity = 2
  /\ ret[1].btw = "9%"
  /\ ret[1].price = [mantissa |-> 109, places |-> 2]

InInvoice ==
  fn \in {"extract_products_from_text", "extract_products_from_text returned",
          "extract_products_from_text raised"}

HasDenyToken(name) ==
  \E k \in 1..Len(skip_patterns) : Contains(lower(name), skip_patterns[k])

\* The name without its spaces is not empty and has only digits.
OnlyDigits(name) ==
  /\ \E k \in 1..Len(name) : Ch(name, k) # " "
  /\ \A k \in 1..Len(name) : Ch(name, k) = " " \/ IsDigit(Ch(name, k))

\* C14: no item the invoice extractor emits has a raw name whose lower-cased
\* form contains a token of the deny list, nor a raw name that, trimmed, is
\* shorter than 3 characters or, without its spaces, consists of digits only.
C14_NoDeniedNames ==
  InInvoice =>
    \A k \in 1..Len(products) :
      /\ ~HasDenyToken(products[k].original_name_raw)
      /\ Len(strip(products[k].original_name_raw)) >= 3
      /\ ~OnlyDigits(products[k].original_name_raw)

C14_Witness ==
  /\ fn = "extract_products_from_text returned"
  /\ arg = "Ab 1 9% 1,00 0,09 1,09\nStatiegeld 1 Geen 0,25 0,00 0,25"
  /\ pos > Len(arg)
  /\ ret = <<>>

InReceipt ==
  fn \in {"extract_products_from_receipt", "extract_products_from_receipt returned"}

IsItemOfMatch(p, match) == match.matched /\ p = invoice_product(match)

\* The item is the one the line of the document with this number produces: for
\* a receipt the line parsed on its own, for an invoice the match of the
\* pattern that begins with the line.
ProducedBy(p, n) ==
  /\ n \in 1..(Cardinality(NewlinesOf(arg)) + 1)
  /\ IF InReceipt
     THEN p = parse_product_line(strip(split(arg)[n]))
     ELSE IsItemOfMatch(p, PatternAt(arg, LineStart(arg, n)))

\* A match that raises, is skipped or has another triple than the item.
IsNoSourceOf(p, match) ==
  match.matched =>
    \/ ~IsFloatText(match.columns.group6)
    \/ IsSkipped(strip(match.group1))
    \/ MatchTriple(match) # TripleOf(p)

\* finditer: the starts of this match and of the matches after it.
RECURSIVE ScanStarts(_, _)
ScanStarts(text, match) ==
  IF match.matched
  THEN {match.start} \cup ScanStarts(text, NextMatch(text, match.columns.end + 1))
  ELSE {}

\* The matches of the scan that begin in a line before this one.
MatchesBefore(text, starts, line) ==
  {PatternAt(text, s) : s \in {t \in starts : LineOf(text, t) < line}}

\* C15: the items are in the order of their source lines: each item comes from
\* the line of the document where its match begins, and an item in front of
\* another comes from an earlier line (an invoice item from the first match of
\* the scan with its triple).
C15_ItemsInLineOrder ==
  (InReceipt \/ InInvoice) =>
    /\ Len(origin) = Len(products)
    /\ \A k \in 1..Len(products) : ProducedBy(products[k], origin[k])
    /\ \A a, b \in 1..Len(products) : a < b => origin[a] < origin[b]
    /\ InInvoice =>
         \A k \in 1..Len(products) :
           \A match \in MatchesBefore(arg, ScanStarts(arg, NextMatch(arg, 1)), origin[k]) :
             IsNoSourceOf(products[k], match)

C15_Witness ==
  /\ fn = "extract_products_from_text returned"
  /\ arg = "Room ei BONUS 1 9% 2,00 0,18 2,18\nQxz 1 21% 1,00 0,21 1,21"
  /\ Len(ret) = 2
  /\ ret[1].name = "Room ei"
  /\ ret[2].name = "Qxz"
  /\ origin = <<1, 2>>

\* C16: a call of extract_products_from_text or extract_products_from_receipt
\* never raises: whatever the text, it ends by returning the list of items.
C16_NeverRaises ==
  /\ fn # "extract_products_from_text raised"
  /\ fn \in {"extract_products_from_text returned", "extract_products_from_receipt returned"}
       => ret = products

\* C17: every item of either extractor has a price of at least 0 and a
\* quantity of at least 1; a weighed item has quantity 1 and a weight above 0.
C17_QuantityAtLeastOne ==
  \A k \in 1..Len(products) :
    /\ products[k].price.mantissa >= 0
    /\ products[k].quantity >= 1
    /\ "weight_kg" \in DOMAIN products[k] =>
         products[k].quantity = 1 /\ products[k].weight_kg.mantissa > 0

\* C19: no step of a call of extract_products_from_text or
\* extract_products_from_receipt, with the calls of categorize_product,
\* determine_subcategory and expand_abbreviation it makes, changes
\* CATEGORY_KEYWORDS.  (SUBCATEGORY_KEYWORDS, the priority rules and
\* ABBREVIATION_MAP are assigned by no function a parse calls.)
C19_ParseLeavesTables ==
  [][(InReceipt' \/ InInvoice') =>
       /\ keyword_edits' = keyword_edits
       /\ CATEGORY_KEYWORDS' = CATEGORY_KEYWORDS]_vars

C19_Witness ==
  /\ fn = "extract_products_from_receipt returned"
  /\ arg = "1 AH KR MUESLI 2,99\n 2 LEFFE BLOND 1,11 2,22 B"
  /\ Len(ret) = 2
  /\ CATEGORY_KEYWORDS = InitialCategoryKeywords


\* The item has the name column of this match as its raw name.
HasNameOf(p, match) == match.matched /\ p.original_name_raw = strip(match.group1)

\* The match of the column grammar in a line taken on its own.
OwnMatch(text, n) == PatternAt(split(text)[n], 1)

LineNumbers(text) == 1..(Cardinality(NewlinesOf(text)) + 1)

\* A match that is emitted unless an item with its triple was emitted before.
IsEmittedIn(match, items) ==
  Passes(match) => \E k \in 1..Len(items) : TripleOf(items[k]) = MatchTriple(match)

\* C23: every item of extract_products_from_text comes from one line that
\* matches the column grammar and has the name column of that line as its raw
\* name, without a line break; and when the call has returned, every line that
\* matches the grammar and is not skipped has been emitted, whatever the lines
\* before it (unless its triple was emitted before).
C23_OneLinePerItem ==
  InInvoice =>
    /\ \A k \in 1..Len(products) :
         \E n \in LineNumbers(arg) : HasNameOf(products[k], OwnMatch(arg, n))
    /\ fn = "extract_products_from_text returned" =>
         \A n \in LineNumbers(arg) : IsEmittedIn(OwnMatch(arg, n), ret)
----------------------------------------------------------------------------
(* SpecImport: calls of import_invoice and import_receipt, one after the   *)
(* other, on files given by their MD5 digest and their text.               *)

MaxImports == 3

InvoiceFiles ==
  {[file_hash |-> "i1",
    text |-> "AH Halfvolle melk 2 9% 1,00 0,09 1,09\nAH Halfvolle melk BONUS 2 9% 1,00 0,09 1,09\nStatiegeld 1 Geen 0,25 0,00 0,25\nDatum 3 maart 2025"],
   [file_hash |-> "i2", text |-> "AH Halfvolle melk 2 9% 1,00 0,09 1,09"],
   [file_hash |-> "i3", text |-> "Qxz 1 21% 1,00 0,21 1,21\nDatum 31 april 2025"],
   [file_hash |-> "i4", text |-> "Qxz 1 21% 1,00 0,21 1,2,1\nDatum 3 maart 2025"],
   [file_hash |-> "i5", text |-> "Qxz 1 21% 1,00 0,21 1,21\nDatum 3 maert 2025"],
   [file_hash |-> "i6", text |-> "AH Halfvolle melk 1 9% 1,00 0,09 1,09\nDatum 4 maart 2025"]}

ReceiptFiles ==
  {[file_hash |-> "r1",
    text |-> "Albert Heijn\n\n1 QX ZZ 1,00\n+STATIEGELD 0,30\n14:26 20-12-2025\nSubtotaal 1,30\n1 AH KR MUESLI 2,99"],
   [file_hash |-> "r2", text |-> "1 QX ZZ 1,00"],
   [file_hash |-> "r3", text |-> "1 QX ZZ 1,00\n99-99-2025"]}

InitImport ==
  /\ arg = ""
  /\ NoCall
  /\ NoEdits
  /\ NoDocument
  /\ NoImport

\* import_invoice(pdf_path, force) or import_receipt(pdf_path, force):
\* result["status"] = "unknown", "file_hash = calculate_file_hash(pdf_path)"
Call(name, file, force) ==
  /\ importing' = [fn |-> name, file_hash |-> file.file_hash, force |-> force, pc |-> "check",
                   status |-> "unknown", date |-> None, invoice_id |-> None,
                   n |-> importing.n + 1]
  /\ arg' = file.text

ImportCall ==
  /\ importing.pc \in {"idle", "done"}
  /\ importing.n < MaxImports
  /\ \E force \in BOOLEAN :
       \/ \E file \in InvoiceFiles : Call("import_invoice", file, force)
       \/ \E file \in ReceiptFiles : Call("import_receipt", file, force)
  /\ UNCHANGED <<keyword_edits, mutation, fn, ret, lines, i, pos, seen_products, products, origin, db,
                 scan, parked>>

\* Mutant: the lookup of the hash is left out.
IsSkippedFile_never == FALSE

\* "if invoice_exists(file_hash) and not force:"
IsSkippedFile == invoice_exists(importing.file_hash) /\ ~importing.force

\* result["status"] = "skipped", "return result"
ImportSkip ==
  /\ importing.pc = "check"
  /\ IsSkippedFile
  /\ importing' = [importing EXCEPT !.pc = "done", !.status = "skipped"]
  /\ UNCHANGED <<keyword_edits, mutation, fn, arg, ret, lines, i, pos, seen_products, products,
                 origin, db, scan, parked>>

\* parse_invoice up to "products = extract_products_from_text(raw_text)"; when
\* parse_dutch_date raises, the except clause leaves the date None and the
\* products [].
BeginParseInvoice(found) ==
  /\ importing' = [importing EXCEPT !.pc = "parse", !.date = found.date]
  /\ fn' = IF found.raised THEN "parse_invoice raised" ELSE "extract_products_from_text"
  /\ ret' = IF found.raised THEN "ValueError" ELSE None
  /\ products' = <<>>
  /\ origin' = <<>>
  /\ seen_products' = {}
  /\ pos' = 1

ParseInvoice ==
  /\ importing.pc = "check"
  /\ importing.fn = "import_invoice"
  /\ ~IsSkippedFile
  /\ BeginParseInvoice(invoice_date(arg))
  /\ UNCHANGED <<keyword_edits, mutation, arg, lines, i, db, scan, parked>>

\* parse_receipt up to "products = extract_products_from_receipt(raw_text)"
ParseReceipt ==
  /\ importing.pc = "check"
  /\ importing.fn = "import_receipt"
  /\ ~IsSkippedFile
  /\ importing' = [importing EXCEPT !.pc = "parse", !.date = receipt_date(arg)]
  /\ fn' = "extract_products_from_receipt"
  /\ ret' = None
  /\ products' = <<>>
  /\ origin' = <<>>
  /\ lines' = split(arg)
  /\ i' = 1
  /\ UNCHANGED <<keyword_edits, mutation, arg, pos, seen_products, db, scan, parked>>

\* parse_invoice or parse_receipt has returned; the products it returned: []
\* when an exception was caught in parse_invoice.
ParseEnded ==
  /\ importing.pc = "parse"
  /\ fn \in {"extract_products_from_text returned", "extract_products_from_text raised",
             "parse_invoice raised", "extract_products_from_receipt returned"}

ParsedProducts ==
  IF fn \in {"extract_products_from_text returned", "extract_products_from_receipt returned"}
  THEN ret ELSE <<>>

\* "if not invoice_data['date']:" result["status"] = "error", "return result"
RejectNoDate ==
  /\ ParseEnded
  /\ importing.date = None
  /\ importing' = [importing EXCEPT !.pc = "done", !.status = "error"]
  /\ fn' = "idle"
  /\ UNCHANGED <<keyword_edits, mutation, arg, ret, lines, i, pos, seen_products, products,
                 origin, db, scan, parked>>

\* "invoice_id = save_invoice(invoice_data)": the INSERT and its commit.  The
\* column file_hash is UNIQUE, so that a row with the hash makes the INSERT
\* raise sqlite3.IntegrityError; with the database locked it raises
\* sqlite3.OperationalError.  save_invoice then leaves its connection open
\* with the write transaction it began, and import_invoice catches the
\* exception: result["status"] = "error"
SaveInvoice_without_date ==
  /\ ParseEnded
  /\ IF db.locked \/ invoice_exists(importing.file_hash)
     THEN /\ importing' = [importing EXCEPT !.pc = "done", !.status = "error"]
          /\ fn' = "idle"
          /\ db' = [db EXCEPT !.locked = TRUE]
     ELSE /\ db' = [db EXCEPT !.invoices =
                      Append(@, invoice_row(importing.file_hash, importing.date))]
          /\ importing' = [importing EXCEPT !.pc = "save_products", !.invoice_id = lastrowid]
          /\ UNCHANGED fn
  /\ UNCHANGED <<keyword_edits, mutation, arg, ret, lines, i, pos, seen_products, products,
                 origin, scan, parked>>

SaveInvoice ==
  /\ ParseEnded
  /\ importing.date # None
  /\ IF db.locked \/ invoice_exists(importing.file_hash)
     THEN /\ importing' = [importing EXCEPT !.pc = "done", !.status = "error"]
          /\ fn' = "idle"
          /\ db' = [db EXCEPT !.locked = TRUE]
     ELSE /\ db' = [db EXCEPT !.invoices =
                      Append(@, invoice_row(importing.file_hash, importing.date))]
          /\ importing' = [importing EXCEPT !.pc = "save_products", !.invoice_id = lastrowid]
          /\ UNCHANGED fn
  /\ UNCHANGED <<keyword_edits, mutation, arg, ret, lines, i, pos, seen_products, products,
                 origin, scan, parked>>

\* The connection that a failed save_invoice left open is closed when the
\* interpreter collects it, at a time the program does not choose; until then
\* its transaction keeps the database locked against writing.
ReleaseConnection ==
  /\ db.locked
  /\ db' = [db EXCEPT !.locked = FALSE]
  /\ UNCHANGED <<keyword_edits, mutation, fn, arg, ret, lines, i, pos, seen_products, products,
                 origin, importing, scan, parked>>

\* "save_products(invoice_id, products)", result["status"] = "success".  With
\* the database locked by another connection the first INSERT raises
\* sqlite3.OperationalError: the row of invoices stays, without products, and
\* result["status"] = "error"
SaveProducts ==
  /\ importing.pc = "save_products"
  /\ IF db.locked
     THEN /\ importing' = [importing EXCEPT !.pc = "done", !.status = "error"]
          /\ UNCHANGED db
     ELSE /\ db' = [db EXCEPT !.products = save_products(importing.invoice_id, ParsedProducts)]
          /\ importing' = [importing EXCEPT !.pc = "done", !.status = "success"]
  /\ fn' = "idle"
  /\ UNCHANGED <<keyword_edits, mutation, arg, ret, lines, i, pos, seen_products, products,
                 origin, scan, parked>>

NextImport ==
  \/ ImportCall
  \/ ImportSkip
  \/ ParseInvoice
  \/ ParseReceipt
  \/ ReceiptSkip
  \/ ReceiptStop
  \/ ReceiptDeposit
  \/ ReceiptParse
  \/ ReceiptReturn
  \/ InvoiceRaise
  \/ InvoiceSkip
  \/ InvoiceDuplicate
  \/ InvoiceEmit
  \/ InvoiceReturn
  \/ RejectNoDate
  \/ SaveInvoice
  \/ SaveProducts
  \/ ReleaseConnection

SpecImport == InitImport /\ [][NextImport]_vars

----------------------------------------------------------------------------
(* SpecCorrect: imports, and between them calls of update_product_category *)
(* as the route of app.py makes them.                                      *)

MaxOverrides == 1

CorrectionCategories == {"Dranken"}

\* update_product_category(product_id, category, apply_to_similar); with the
\* database locked its UPDATE raises sqlite3.OperationalError and its
\* connection stays open as well.
Correct(updated) ==
  IF db.locked /\ updated.result.success
  THEN /\ ret' = "OperationalError"
       /\ UNCHANGED db
  ELSE /\ ret' = updated.result
       /\ db' = [db EXCEPT !.products = updated.products,
                           !.product_overrides = updated.product_overrides]

UpdateProductCategory ==
  /\ importing.pc \in {"idle", "done"}
  /\ \E product_id \in 1..(Len(db.products) + 1), category \in CorrectionCategories,
        apply_to_similar \in BOOLEAN :
       /\ apply_to_similar => Len(db.product_overrides) < MaxOverrides
       /\ Correct(update_product_category(product_id, category, apply_to_similar))
  /\ UNCHANGED <<keyword_edits, mutation, fn, arg, lines, i, pos, seen_products, products,
                 origin, importing, scan, parked>>

NextCorrect == NextImport \/ UpdateProductCategory

SpecCorrect == InitImport /\ [][NextCorrect]_vars

----------------------------------------------------------------------------
(* Claims about import_invoice and import_receipt (SpecImport).            *)

\* The documents in which parse_invoice or parse_receipt finds no date.
UndatedFiles ==
  {file \in InvoiceFiles : invoice_date(file.text).date = None}
    \cup {file \in ReceiptFiles : receipt_date(file.text) = None}

\* A call of import_invoice or import_receipt on a document without a date has
\* begun.
ImportsUndated == \E file \in UndatedFiles : importing.file_hash = file.file_hash

ImportReturned == importing.pc = "done"

\* C20: if no date can be extracted from a document, no step of its import
\* changes the tables invoices and products, and the import returns the status
\* "error".
C20_UndatedDocumentRejected ==
  [][ImportsUndated' =>
       /\ db'.invoices = db.invoices
       /\ db'.products = db.products
       /\ ImportReturned' => importing'.status = "error"]_vars

\* A dated invoice has been imported with its product, and then the import of
\* a receipt without a date has returned an error.
C20_Witness ==
  /\ ImportReturned
  /\ ImportsUndated
  /\ importing.fn = "import_receipt"
  /\ importing.status = "error"
  /\ Len(db.invoices) = 1
  /\ Len(db.products) = 1


\* C27: an import with force=True of a file whose hash is stored does not skip
\* it and returns the status "success".
C27_ForcedImportSucceeds ==
  (ImportReturned /\ importing.force /\ invoice_exists(importing.file_hash))
    => importing.status = "success"

\* The rows of products that belong to the row of invoices with this id, as
\* the items they were written from.
RowsOf(invoice_id) ==
  SelectSeq(db.products, LAMBDA row : row.invoice_id = invoice_id)

RowsFor(invoice_id, items) ==
  [k \in 1..Len(items) |-> product_row(Len(db.products) + k, invoice_id, items[k])]

\* C28: an import stores no document partially: the step that follows an
\* extraction that raised ends the import with the status "error" and leaves
\* the tables as they are, and an import returns "success" only with the rows
\* of products of its invoice being the items extracted from the text.
C28_NoPartialImport ==
  [][/\ (ParseEnded /\ fn = "extract_products_from_text raised")
          => /\ importing'.status = "error"
             /\ db'.invoices = db.invoices
             /\ db'.products = db.products
     /\ (importing.status # "success" /\ importing'.status = "success")
          => RowsOf(importing.invoice_id)' = RowsFor(importing.invoice_id, ParsedProducts)]_vars

\* The text is a calendar date written as YYYY-MM-DD.
IsDateText(date) ==
  /\ Len(date) = 10
  /\ \A k \in {1, 2, 3, 4, 6, 7, 9, 10} : IsDigit(Ch(date, k))
  /\ Ch(date, 5) = "-" /\ Ch(date, 8) = "-"
  /\ ~parse_dutch_date(ToInt(SubSeq(date, 9, 10)), "januari", ToInt(SubSeq(date, 1, 4))).raised
  /\ ToInt(SubSeq(date, 6, 7)) \in 1..12
  /\ ~parse_dutch_date(ToInt(SubSeq(date, 9, 10)), dutch_months[ToInt(SubSeq(date, 6, 7))],
                       ToInt(SubSeq(date, 1, 4))).raised

\* The month word of the date printed in an invoice is the name of a month.
NamesMonth(m) == m.matched => \E k \in 1..12 : dutch_months[k] = lower(m.word)

PrintsMonth(text) ==
  NamesMonth(FirstMatchAt(text, {p \in 1..Len(text) : DatumAt(text, p).matched}))

\* The hashes of the invoices whose date does not name a month.
UnknownMonthFiles == {file.file_hash : file \in {f \in InvoiceFiles : ~PrintsMonth(f.text)}}

\* C29: every row of invoices has an invoice_date that is a calendar date in
\* the form YYYY-MM-DD, and no row belongs to an invoice whose date has a word
\* that is no month name.
C29_StoredDatesAreValid ==
  \A r \in 1..Len(db.invoices) :
    /\ IsDateText(db.invoices[r].invoice_date)
    /\ db.invoices[r].file_hash \notin UnknownMonthFiles

\* The rows that the step adds to the table products.
NewRows(before, after) == {after[k] : k \in (Len(before) + 1)..Len(after)}

\* The category of the override rule saved last for the name, None without one.
LastOverride(rules, name) ==
  IF \E k \in 1..Len(rules) : rules[k].product_name_pattern = name
  THEN default_categories[
         rules[Max({k \in 1..Len(rules) : rules[k].product_name_pattern = name})].category_id]
  ELSE None

\* C30: after update_product_category(id, C, apply_to_similar=True) on a
\* product named N has saved its override rule, every product named N that an
\* import stores has the effective category C.
C30_OverrideAppliesToImports ==
  [][\A row \in NewRows(db.products, db'.products) :
       LastOverride(db.product_overrides, row.original_name) # None
         => effective_category(row) = LastOverride(db.product_overrides, row.original_name)]_vars
----------------------------------------------------------------------------
(* SpecRace: categorize_product one loop iteration at a time, with calls   *)
(* of add_keyword_to_category and remove_keyword_from_category, which      *)
(* app.py serves on other threads, before and between the iterations.  The *)
(* list iterator of "for keyword in keywords" keeps the index of the       *)
(* element it takes next; the lists are changed in place.                  *)

RaceNames == {"Cola", "Chips", "Qx"}

InitRace ==
  /\ arg \in RaceNames
  /\ NoCall
  /\ NoEdits
  /\ NoDocument
  /\ NoImport

\* categorize_product up to the end of the loop over priority_rules, a list
\* local to the call: it returns the category of a rule, or goes on to the
\* loop over CATEGORY_KEYWORDS.items().
BeginScan(product_lower, rule) ==
  /\ scan' = [product_lower |-> product_lower, category |-> 1, keyword |-> 1,
              edits |-> Len(keyword_edits)]
  /\ fn' = IF rule # 0 THEN "categorize_product" ELSE "categorize_product scanning"
  /\ ret' = IF rule # 0 THEN priority_rules[rule].category ELSE None

ScanCall ==
  /\ fn = "idle"
  /\ BeginScan(lower(normalize_product_name(arg)),
               FirstEntry(priority_rules, lower(normalize_product_name(arg))))
  /\ UNCHANGED <<keyword_edits, mutation, arg, lines, i, pos, seen_products, products, origin,
                 db, importing, parked>>

\* The list that the inner loop iterates: CATEGORY_KEYWORDS[category] as it is now.
ScannedList == CATEGORY_KEYWORDS[scan.category].keywords

\* Mutant: the loop tests every other keyword.
TestKeyword_every_other(keyword) ==
  IF Contains(scan.product_lower, keyword)
  THEN /\ fn' = "categorize_product"
       /\ ret' = CATEGORY_KEYWORDS[scan.category].category
       /\ UNCHANGED scan
  ELSE /\ scan' = [scan EXCEPT !.keyword = @ + 2]
       /\ UNCHANGED <<fn, ret>>

\* "if keyword in product_lower: return category"
TestKeyword(keyword) ==
  IF Contains(scan.product_lower, keyword)
  THEN /\ fn' = "categorize_product"
       /\ ret' = CATEGORY_KEYWORDS[scan.category].category
       /\ UNCHANGED scan
  ELSE /\ scan' = [scan EXCEPT !.keyword = @ + 1]
       /\ UNCHANGED <<fn, ret>>

\* "for keyword in keywords:" takes the element at the index of the iterator
ScanKeyword ==
  /\ fn = "categorize_product scanning"
  /\ scan.category <= Len(CATEGORY_KEYWORDS)
  /\ scan.keyword <= Len(ScannedList)
  /\ TestKeyword(ScannedList[scan.keyword])
  /\ UNCHANGED <<keyword_edits, mutation, arg, lines, i, pos, seen_products, products, origin,
                 db, importing, parked>>

\* the iterator is at the end of the list: the outer loop takes the next item
ScanNextCategory ==
  /\ fn = "categorize_product scanning"
  /\ scan.category <= Len(CATEGORY_KEYWORDS)
  /\ scan.keyword > Len(ScannedList)
  /\ scan' = [scan EXCEPT !.category = @ + 1, !.keyword = 1]
  /\ UNCHANGED <<keyword_edits, mutation, fn, arg, ret, lines, i, pos, seen_products, products,
                 origin, db, importing, parked>>

\* return "Overig"
ScanEnd ==
  /\ fn = "categorize_product scanning"
  /\ scan.category > Len(CATEGORY_KEYWORDS)
  /\ fn' = "categorize_product"
  /\ ret' = "Overig"
  /\ UNCHANGED <<keyword_edits, mutation, arg, lines, i, pos, seen_products, products, origin,
                 db, importing, scan, parked>>

\* api_add_keyword and api_remove_keyword served while the call is in its loop
ConcurrentAdd ==
  /\ fn = "categorize_product scanning"
  /\ Len(keyword_edits) < MaxEdits
  /\ \E category \in EditCategories, keyword \in EditKeywords :
       Mutate("add_keyword_to_category", category, keyword,
              add_keyword_to_category(category, keyword))
  /\ UNCHANGED <<fn, arg, ret, lines, i, pos, seen_products, products, origin, db, importing,
                 scan, parked>>

ConcurrentRemove ==
  /\ fn = "categorize_product scanning"
  /\ Len(keyword_edits) < MaxEdits
  /\ \E category \in EditCategories, keyword \in EditKeywords :
       Mutate("remove_keyword_from_category", category, keyword,
              remove_keyword_from_category(category, keyword))
  /\ UNCHANGED <<fn, arg, ret, lines, i, pos, seen_products, products, origin, db, importing,
                 scan, parked>>

NextRace ==
  \/ AddKeyword
  \/ RemoveKeyword
  \/ ScanCall
  \/ ScanKeyword
  \/ ScanNextCategory
  \/ ScanEnd
  \/ ConcurrentAdd
  \/ ConcurrentRemove

SpecRace == InitRace /\ [][NextRace]_vars

\* What categorize_product returns for a name that no priority rule matches,
\* with the table as given.
CategoryWith(table, entry) == IF entry = 0 THEN "Overig" ELSE table[entry].category

CategoryBefore ==
  CategoryWith(ApplyEdits(InitialCategoryKeywords, SubSeq(keyword_edits, 1, scan.edits)),
               FirstEntry(ApplyEdits(InitialCategoryKeywords,
                                     SubSeq(keyword_edits, 1, scan.edits)),
                          scan.product_lower))

CategoryAfter ==
  CategoryWith(CATEGORY_KEYWORDS, FirstEntry(CATEGORY_KEYWORDS, scan.product_lower))

Scanned == fn = "categorize_product" /\ scan # NotScanning

\* C22: a call of categorize_product during which no keyword was added or
\* removed returns the category that the table gives; only a call with a
\* change of the table between its iterations can return another one (and it
\* can: the witness is a call that skips "cola", which is in the list before
\* and after the removal of "water", and returns "Overig", which neither table
\* gives).
C22_OnlyUnserializedCallsRace ==
  Scanned =>
    /\ scan.edits = Len(keyword_edits) => ret = categorize_product(arg)
    /\ ret \notin {CategoryBefore, CategoryAfter, categorize_product(arg)}
         => scan.edits < Len(keyword_edits)

C22_Witness ==
  /\ Scanned
  /\ arg = "Cola"
  /\ keyword_edits = <<[op |-> "remove", category |-> "Dranken", keyword |-> "water"]>>
  /\ scan.edits = 0
  /\ IsElement(InitialCategoryKeywords, "Dranken", "cola")
  /\ IsElement(CATEGORY_KEYWORDS, "Dranken", "cola")
  /\ CategoryBefore = "Dranken"
  /\ CategoryAfter = "Dranken"
  /\ ret = "Overig"

----------------------------------------------------------------------------
(* SpecParallel: two workers, each importing files with import_invoice or  *)
(* import_receipt, their steps interleaved.  The workers share the         *)
(* database and the keyword table; each has its own locals.                *)

\* Two invoices: one that prints an item twice, one with a name too short, a
\* total that float() rejects and no date.  Two receipts, the second without
\* a date.
ParallelInvoices ==
  {[file_hash |-> "i8",
    text |-> "Abc 1 9% 1,00 0,09 1,09\nAbc 1 9% 1,00 0,09 1,09\nDatum 3 maart 2025"],
   [file_hash |-> "i9", text |-> "Ab 1 9% 1,00 0,09 1,09\nAbc 1 9% 1,00 0,09 1,2,1"]}

ParallelReceipts == {file \in ReceiptFiles : file.file_hash \in {"r1", "r2"}}

MaxCalls == 2

InitParallel == InitImport

\* The locals of the worker that is running.
Running ==
  [fn |-> fn, arg |-> arg, ret |-> ret, lines |-> lines, i |-> i, pos |-> pos,
   seen_products |-> seen_products, products |-> products, origin |-> origin,
   importing |-> importing, scan |-> scan]

\* Mutant: seen_products is one set for both workers.
Switch_sharing_seen_products ==
  /\ parked' = Running
  /\ fn' = parked.fn
  /\ arg' = parked.arg
  /\ ret' = parked.ret
  /\ lines' = parked.lines
  /\ i' = parked.i
  /\ pos' = parked.pos
  /\ products' = parked.products
  /\ origin' = parked.origin
  /\ importing' = parked.importing
  /\ scan' = parked.scan
  /\ UNCHANGED <<keyword_edits, mutation, db, seen_products>>

\* The interpreter switches to the other worker: the locals of each call stay
\* with the call.
Switch ==
  /\ parked' = Running
  /\ fn' = parked.fn
  /\ arg' = parked.arg
  /\ ret' = parked.ret
  /\ lines' = parked.lines
  /\ i' = parked.i
  /\ pos' = parked.pos
  /\ seen_products' = parked.seen_products
  /\ products' = parked.products
  /\ origin' = parked.origin
  /\ importing' = parked.importing
  /\ scan' = parked.scan
  /\ UNCHANGED <<keyword_edits, mutation, db>>

\* The running worker is given a file; MaxCalls bounds the calls of the two
\* workers together.
ParallelCall ==
  /\ importing.pc \in {"idle", "done"}
  /\ importing.n + parked.importing.n < MaxCalls
  /\ \E force \in BOOLEAN :
       \/ \E file \in ParallelInvoices : Call("import_invoice", file, force)
       \/ \E file \in ParallelReceipts : Call("import_receipt", file, force)
  /\ UNCHANGED <<keyword_edits, mutation, fn, ret, lines, i, pos, seen_products, products, origin, db,
                 scan, parked>>

NextParallel ==
  \/ ParallelCall
  \/ Switch
  \/ ImportSkip
  \/ ParseInvoice
  \/ ParseReceipt
  \/ ReceiptSkip
  \/ ReceiptStop
  \/ ReceiptDeposit
  \/ ReceiptParse
  \/ ReceiptReturn
  \/ InvoiceRaise
  \/ InvoiceSkip
  \/ InvoiceDuplicate
  \/ InvoiceEmit
  \/ InvoiceReturn
  \/ RejectNoDate
  \/ SaveInvoice
  \/ SaveProducts
  \/ ReleaseConnection

SpecParallel == InitParallel /\ [][NextParallel]_vars

----------------------------------------------------------------------------
(* SpecWorkers: two workers, each calling an extractor on its own          *)
(* document, their steps interleaved; the keyword table is not changed.    *)

WorkerDocuments ==
  {file.text : file \in ParallelInvoices \cup ParallelReceipts} \cup {"Abc 1 9% 1,00 0,09 1,09"}

InitWorkers ==
  /\ arg \in WorkerDocuments
  /\ NoCall
  /\ NoEdits
  /\ NoDocument
  /\ db = [invoices |-> <<>>, products |-> <<>>, product_overrides |-> <<>>, locked |-> FALSE]
  /\ importing = NotImporting
  /\ scan = NotScanning
  /\ parked \in {[IdleWorker EXCEPT !.arg = text] : text \in WorkerDocuments \ {arg}}

NextWorkers == NextExtract \/ Switch

SpecWorkers == InitWorkers /\ [][NextWorkers]_vars

\* extract_products_from_text(text) run alone, from the match at hand to its
\* return or its exception.
RECURSIVE InvoiceAlone(_, _, _, _)
InvoiceAlone(text, match, seen, list) ==
  IF ~match.matched THEN [raised |-> FALSE, products |-> list]
  ELSE IF Raises(match) THEN [raised |-> TRUE, products |-> list]
  ELSE IF Skips(match) \/ KeyOf(invoice_product(match)) \in seen
  THEN InvoiceAlone(text, NextMatch(text, match.columns.end + 1), seen, list)
  ELSE InvoiceAlone(text, NextMatch(text, match.columns.end + 1),
                    seen \cup {KeyOf(invoice_product(match))},
                    Append(list, invoice_product(match)))

\* extract_products_from_receipt(text) run alone, from line k on.
RECURSIVE ReceiptAlone(_, _, _)
ReceiptAlone(all, k, list) ==
  IF k > Len(all) THEN list
  ELSE IF IsBlankOrHeader(strip(all[k])) THEN ReceiptAlone(all, k + 1, list)
  ELSE IF should_stop(strip(all[k])) THEN list
  ELSE IF IsDeposit(strip(all[k])) THEN ReceiptAlone(all, k + 1, list)
  ELSE IF parse_product_line(strip(all[k])) = NoProduct THEN ReceiptAlone(all, k + 1, list)
  ELSE ReceiptAlone(all, k + 1, Append(list, parse_product_line(strip(all[k]))))

\* The outcome of a call that has ended: the list returned, or the exception.
Outcome(worker) ==
  IF worker.fn = "extract_products_from_text raised"
  THEN [raised |-> TRUE, products |-> <<>>]
  ELSE [raised |-> FALSE, products |-> worker.ret]

InvoiceOutcomeAlone(text) ==
  IF InvoiceAlone(text, NextMatch(text, 1), {}, <<>>).raised
  THEN [raised |-> TRUE, products |-> <<>>]
  ELSE InvoiceAlone(text, NextMatch(text, 1), {}, <<>>)

ReturnsAsAlone(worker) ==
  /\ worker.fn \in {"extract_products_from_text returned", "extract_products_from_text raised"}
       => Outcome(worker) = InvoiceOutcomeAlone(worker.arg)
  /\ worker.fn = "extract_products_from_receipt returned"
       => worker.ret = ReceiptAlone(split(worker.arg), 1, <<>>)

\* C21: with no change of the keyword table under way, an extractor call that
\* runs interleaved with another extractor call on another document returns
\* exactly the list it returns when it runs alone, and raises exactly when it
\* raises alone.
C21_ParallelCallsReturnAsAlone == ReturnsAsAlone(Running) /\ ReturnsAsAlone(parked)

\* Both workers are in extract_products_from_text on different documents that
\* print the same item; the one that has returned returned the item although
\* the other had it in its set already.
C21_Witness ==
  /\ fn = "extract_products_from_text returned"
  /\ parked.fn = "extract_products_from_text"
  /\ arg # parked.arg
  /\ keyword_edits = <<>>
  /\ Len(ret) = 1
  /\ KeyOf(ret[1]) \in parked.seen_products

\* The rows of the two tables that imports write.
StoredRows == <<db.invoices, db.products>>

OneRowPerHash ==
  \A a, b \in 1..Len(db.invoices) :
    db.invoices[a].file_hash = db.invoices[b].file_hash => a = b

\* The running worker takes the step after its check "if invoice_exists(
\* file_hash) and not force", with the hash stored and force False.
ChecksStoredFile ==
  /\ importing.pc = "check"
  /\ ~importing.force
  /\ invoice_exists(importing.file_hash)
  /\ importing'.pc # "check"
  /\ parked'.importing.pc = parked.importing.pc

\* C26: after any interleaving of import_invoice and import_receipt calls the
\* table invoices has at most one row for each file hash, and an import
\* without force of a file whose hash is stored when the import looks it up
\* returns "skipped" and leaves every row of invoices and products as it is.
C26_ImportIsIdempotent ==
  /\ []OneRowPerHash
  /\ [][ChecksStoredFile =>
          /\ importing'.pc = "done"
          /\ importing'.status = "skipped"
          /\ StoredRows' = StoredRows]_vars

\* The other worker imported the file; this worker's import of the same file
\* returned "skipped", and the table has the one row.
C26_Witness ==
  /\ importing.pc = "done"
  /\ importing.status = "skipped"
  /\ parked.importing.status = "success"
  /\ parked.importing.file_hash = importing.file_hash
  /\ Len(db.invoices) = 1
  /\ db.invoices[1].file_hash = importing.file_hash
============================================================================
